---------------------------- MODULE Spec2Model ----------------------------
(***************************************************************************)
(* Model of the generate/evaluate refinement loop of Barto-MCP:            *)
(*   - the stop conditions and their composite (core/orchestrator/         *)
(*     stop-conditions),                                                   *)
(*   - RalphOrchestrator.execute (core/orchestrator/ralph.orchestrator.ts),*)
(*   - DiscriminatorRunner.parseResponse (core/runners),                   *)
(*   - retry (shared/utils/retry).                                         *)
(*                                                                         *)
(* Scores are JavaScript numbers (IEEE-754 doubles).  In the state a score *)
(* is the decimal literal the evaluator wrote, in thousandths (510 stands  *)
(* for the literal 0.51); Dbl[m] is the double that literal denotes, as an *)
(* exact count of units of 2^-60 held in two limbs <<hi, lo>> of 30 bits,  *)
(* and arithmetic on scores is done on those doubles with IEEE rounding.   *)
(***************************************************************************)
EXTENDS Integers, Sequences, FiniteSets, TLC

VARIABLES
  \* ---- stop-condition harness (SpecStop) ----
  ctx,          \* the StopConditionContext handed to a predicate
  stopCfg,      \* the configuration of the predicates under evaluation
  decision,     \* the StopConditionResult returned
  spc,          \* "idle" | "ready" | the name of the predicate evaluated
  \* ---- RalphOrchestrator (Spec) ----
  pc,           \* "idle" | "config" | "generating" | "evaluating" | "done" | "failed"
  conditions,   \* CompositeStopCondition.conditions: the list of condition names
  params,       \* ExecuteParams: maxIterations, scoreThreshold
  iteration,    \* the loop variable of execute
  iterations,   \* IterationState[] recorded so far
  currentOutput,\* the last candidate (0 stands for the empty string)
  lastFeedback, \* DiscriminatorFeedback | null
  stopReason,
  result,       \* the WorkflowResult returned by execute
  thrown,       \* the WorkflowExecutionError thrown by execute
  errorLog,     \* logger.error entries of execute
  calls,        \* the runner calls issued, in order
  \* ---- response-interpreter harness (SpecParse) ----
  content,      \* result.content: the evaluator response text
  wrap,         \* how the text was built: form, payload feedback, prose around it
  interp,       \* what parseResponse returned
  ppc,          \* "idle" | "ready" | "done"
  \* ---- retry (SpecRetry) ----
  rpc,          \* "idle" | "ready" | "calling" | "sleeping" | "returned" | "thrown"
  opts,         \* RetryOptions: maxAttempts, delays, jitter, onRetry
  script,       \* what fn does at each of its invocations
  attempt,      \* the loop variable of retry
  events,       \* the calls of fn, of onRetry and of sleep, in order
  outcome,      \* what retry returned or threw
  apiErrors,    \* when fn is provider.complete: what the API does at each request
  \* ---- ResilientRedisClient and WorkflowStateStore (SpecClient, SpecStore) ----
  now,          \* Date.now(), in ticks
  server,       \* the Redis server: whether it answers, and its keys
  rclient,      \* the ResilientRedisClient with its InMemoryStore
  twin,         \* a second ResilientRedisClient, serving from its fallback
  slast,        \* the last operation on the client or the store, and its outputs
  shist,        \* what happened so far: a switch to the fallback, a write not on Redis
  \* ---- workflow worker, queue job and cancel_workflow (SpecWorker) ----
  job,          \* the BullMQ job of the workflow: state, progress.cancelled, attempts
  wpc,          \* processWorkflowJob: "idle" | "started" | "executing" | "returned" | "rethrown"
  tool,         \* the calls of cancel_workflow: how many, what the last one did
  pg,           \* PostgreSQL: the rows written, how persistToPostgres last ended
  \* ---- run_workflow: rate limiter, submissions, worker pool (SpecSubmit) ----
  rl,           \* the RateLimiter: its clock, the Redis sorted set, the fallback entry
  execs,        \* the executions submitted: queued, in a worker, in the tool, ended
  \* ---- calculateDelay harness (SpecDelay) ----
  dly,          \* calculateDelay: the attempt, the options, Math.random() and the delay
  \* ---- concurrent store writers ----
  race, \* store writers in flight on one id: what each read and where it is
  \* ---- execute with its runners behind retry ----
  meter, \* remote calls and backoff waits of one execute
  \* ---- list_workflows ----
  lst \* list_workflows: the executions stored, the request, the pages returned

stopVars == <<ctx, stopCfg, decision, spc>>
orchVars == <<pc, conditions, params, iteration, iterations, currentOutput,
              lastFeedback, stopReason, result, thrown, errorLog, calls>>
parseVars == <<content, wrap, interp, ppc>>
retryVars == <<rpc, opts, script, attempt, events, outcome, apiErrors>>
storeVars == <<now, server, rclient, twin, slast, shist>>
workerVars == <<job, wpc, tool, pg>>
submitVars == <<rl, execs>>
delayVars == <<dly>>
raceVars == <<race>>
meterVars == <<meter>>
listVars == <<lst>>
vars == <<stopVars, orchVars, parseVars, retryVars, storeVars, workerVars, submitVars,
          delayVars,
          raceVars,
          meterVars,
          listVars>>

---------------------------------------------------------------------------
(* IEEE-754 double arithmetic on the values the model uses                 *)

Limb == 2^30              \* one limb; a double d in [0,1] is hi*2^-30 + lo*2^-60

RECURSIVE Pow2(_)
Pow2(n) == IF n = 0 THEN 1 ELSE 2 * Pow2(n - 1)

RECURSIVE BitLen(_)
BitLen(n) == IF n = 0 THEN 0 ELSE 1 + BitLen(n \div 2)

\* Binary long division: n more bits of r/1000 appended to acc; <<bits, remainder>>.
RECURSIVE BinDiv(_, _, _)
BinDiv(r, n, acc) ==
  IF n = 0 THEN <<acc, r>>
  ELSE LET r2 == 2 * r
           bit == IF r2 >= 1000 THEN 1 ELSE 0
       IN  BinDiv(r2 - 1000 * bit, n - 1, 2 * acc + bit)

\* Carry of a rounded-up low limb into the high limb.
Norm(hi, lo) == IF lo >= Limb THEN <<hi + 1, lo - Limb>> ELSE <<hi, lo>>

\* The double nearest to m/1000 (round half to even, 53 significant bits),
\* for m = 0 or 4 <= m <= 1000 (so that the value is a multiple of 2^-60).
DecimalToDouble(m) ==
  LET ip   == m \div 1000
      top  == BinDiv(m % 1000, 30, 0)
      hi   == ip * Limb + top[1]
      keep == IF 53 - BitLen(hi) > 30 THEN 30 ELSE 53 - BitLen(hi)
      low  == BinDiv(top[2], keep, 0)
      up   == IF 2 * low[2] > 1000 \/ (2 * low[2] = 1000 /\ low[1] % 2 = 1)
              THEN 1 ELSE 0
  IN  IF m = 0 THEN <<0, 0>>
      ELSE IF keep <= 0 THEN <<hi, 0>>
      ELSE Norm(hi, (low[1] + up) * Pow2(30 - keep))

\* a <= b, a < b on doubles
DblLeq(a, b) == a[1] < b[1] \/ (a[1] = b[1] /\ a[2] <= b[2])
DblLess(a, b) == a[1] < b[1] \/ (a[1] = b[1] /\ a[2] < b[2])

\* The exact difference a - b of two doubles with a >= b.
ExactSub(a, b) ==
  IF a[2] >= b[2] THEN <<a[1] - b[1], a[2] - b[2]>>
  ELSE <<a[1] - b[1] - 1, a[2] + Limb - b[2]>>

\* Rounding of an exact value to 53 significant bits, half to even.
Round53(x) ==
  LET len == IF x[1] > 0 THEN 30 + BitLen(x[1]) ELSE BitLen(x[2])
      d   == len - 53
      q   == x[2] \div Pow2(d)
      rem == x[2] % Pow2(d)
      up  == IF 2 * rem > Pow2(d) \/ (2 * rem = Pow2(d) /\ q % 2 = 1)
             THEN 1 ELSE 0
  IN  IF d <= 0 THEN x ELSE Norm(x[1], (q + up) * Pow2(d))

\* The double a - b (JavaScript's a - b) for a >= b.
DblSub(a, b) == Round53(ExactSub(a, b))

\* The doubles of the decimal literals the model uses, computed once.
Thousandths == {0} \cup (4..1000)
Dbl == [m \in Thousandths |-> DecimalToDouble(m)]

---------------------------------------------------------------------------
(* Stop conditions (core/orchestrator/stop-conditions)                     *)

DefaultMaxStagnantIterations == 3
DefaultImprovementThreshold == 10          \* 0.01
DefaultEarlyScoreThreshold == 100          \* 0.1
DefaultEarlyMinIterations == 2

\* StopConditionResult { shouldStop: false }
\* (message: the sequence of its parts; empty when undefined)
NoStop == [shouldStop |-> FALSE, reason |-> "undefined", message |-> <<>>]

\* StopConditionResult { shouldStop: true, reason, message }
Stop(reason) == [shouldStop |-> TRUE, reason |-> reason, message |-> <<reason>>]

\* Faulty variant: the threshold condition without the test of currentPassed
ThresholdEvaluateScoreOnly(c) ==
  IF DblLeq(Dbl[c.scoreThreshold], Dbl[c.currentScore])
  THEN Stop("threshold_reached")
  ELSE NoStop

\* ThresholdStopCondition.evaluate
ThresholdEvaluate(c) ==
  IF c.currentPassed /\ DblLeq(Dbl[c.scoreThreshold], Dbl[c.currentScore])
  THEN Stop("threshold_reached")
  ELSE NoStop

\* Faulty variant: the ceiling compared with > instead of >=
MaxIterationsEvaluateStrict(c) ==
  IF c.currentIteration > c.maxIterations
  THEN Stop("max_iterations")
  ELSE NoStop

\* MaxIterationsStopCondition.evaluate
MaxIterationsEvaluate(c) ==
  IF c.currentIteration >= c.maxIterations
  THEN Stop("max_iterations")
  ELSE NoStop

\* score - baselineScore > improvementThreshold, on doubles.  The thresholds
\* of the model are >= 0, so a negative difference is not greater.
HasImproved(score, baseline, threshold) ==
  /\ DblLeq(Dbl[baseline], Dbl[score])
  /\ DblLess(Dbl[threshold], DblSub(Dbl[score], Dbl[baseline]))

\* iterations.slice(-n): the last n elements (all of them when there are fewer)
SliceLast(seq, n) ==
  IF Len(seq) <= n THEN seq ELSE SubSeq(seq, Len(seq) - n + 1, Len(seq))

\* StagnationStopCondition.evaluate, for a window of maxStagnant iterations
\* Faulty variant: stagnation over the last maxStagnant iterations only
StagnationEvaluateShortWindow(c, maxStagnant, improvement) ==
  IF Len(c.iterations) < maxStagnant THEN NoStop
  ELSE LET recentIterations == SliceLast(c.iterations, maxStagnant)
           recentScores     == [i \in 1..Len(recentIterations) |->
                                   recentIterations[i].feedback.score]
           baselineScore    == recentScores[1]
           hasImprovement   == \E i \in 2..Len(recentScores) :
                                  HasImproved(recentScores[i], baselineScore, improvement)
       IN  IF ~hasImprovement THEN Stop("stagnation") ELSE NoStop

StagnationEvaluate(c, maxStagnant, improvement) ==
  IF Len(c.iterations) < maxStagnant + 1 THEN NoStop
  ELSE LET recentIterations == SliceLast(c.iterations, maxStagnant + 1)
           recentScores     == [i \in 1..Len(recentIterations) |->
                                   recentIterations[i].feedback.score]
           baselineScore    == recentScores[1]
           hasImprovement   == \E i \in 2..Len(recentScores) :
                                  HasImproved(recentScores[i], baselineScore, improvement)
       IN  IF ~hasImprovement THEN Stop("stagnation") ELSE NoStop

\* Faulty variant: a score equal to the floor stops too
EarlyTerminationEvaluateInclusive(c, floor, minIterations) ==
  IF c.currentIteration < minIterations THEN NoStop
  ELSE IF DblLeq(Dbl[c.currentScore], Dbl[floor]) THEN Stop("early_termination")
  ELSE NoStop

\* EarlyTerminationStopCondition.evaluate
EarlyTerminationEvaluate(c, floor, minIterations) ==
  IF c.currentIteration < minIterations THEN NoStop
  ELSE IF DblLess(Dbl[c.currentScore], Dbl[floor]) THEN Stop("early_termination")
  ELSE NoStop

\* The evaluate method of the built-in condition called name, with the
\* configuration cfg of the stagnation and early-termination conditions.
\* A StopCondition of the caller, added to the composite: it reports
\* shouldStop from the first iteration on and gives no reason
CustomEvaluate(c) == [shouldStop |-> TRUE, reason |-> "undefined", message |-> <<>>]

ConditionEvaluate(name, c, cfg) ==
  CASE name = "custom"            -> CustomEvaluate(c)
    [] name = "threshold"         -> ThresholdEvaluate(c)
    [] name = "max_iterations"    -> MaxIterationsEvaluate(c)
    [] name = "stagnation"        ->
         StagnationEvaluate(c, cfg.maxStagnantIterations, cfg.improvementThreshold)
    [] name = "early_termination" ->
         EarlyTerminationEvaluate(c, cfg.scoreThreshold, cfg.minIterations)

\* Faulty variant: the last condition of the list that reports stop wins
RECURSIVE CompositeEvaluateLastWins(_, _, _)
CompositeEvaluateLastWins(conds, c, cfg) ==
  IF conds = <<>> THEN NoStop
  ELSE LET r == ConditionEvaluate(Head(conds), c, cfg)
           later == CompositeEvaluateLastWins(Tail(conds), c, cfg)
       IN  IF later.shouldStop THEN later
           ELSE IF r.shouldStop
           THEN [r EXCEPT !.message = <<Head(conds)>> \o r.message]
           ELSE NoStop

\* CompositeStopCondition.evaluate: the first condition of the list that
\* reports stop wins; its name is prefixed to the message.
RECURSIVE CompositeEvaluate(_, _, _)
CompositeEvaluate(conds, c, cfg) ==
  IF conds = <<>> THEN NoStop
  ELSE LET r == ConditionEvaluate(Head(conds), c, cfg)
       IN  IF r.shouldStop
           THEN [r EXCEPT !.message = <<Head(conds)>> \o r.message]
           ELSE CompositeEvaluate(Tail(conds), c, cfg)

\* createDefaultStopConditions(): the default list and configuration
DefaultConditions == <<"threshold", "max_iterations", "stagnation", "early_termination">>
DefaultStopConfig ==
  [maxStagnantIterations |-> DefaultMaxStagnantIterations,
   improvementThreshold  |-> DefaultImprovementThreshold,
   scoreThreshold        |-> DefaultEarlyScoreThreshold,
   minIterations         |-> DefaultEarlyMinIterations,
   conditions            |-> DefaultConditions]

---------------------------------------------------------------------------
(* Response interpreter (DiscriminatorRunner.parseResponse)                *)
(*                                                                         *)
(* A response is a sequence of lexical units.  Units the code itself looks *)
(* at: "{" and "}" (brace characters), "F" (a fence, three backticks),     *)
(* "j" (the label json), " " (white space).  Units only JSON.parse looks   *)
(* at: "Q" (a double quote), "x" (any other character), and the members of *)
(* a payload outside its strings: "p1"/"p0" (passed: true/false), "pX"     *)
(* (passed with a non-boolean value), "s<n>" (score: n thousandths), "i"   *)
(* (issues: [...]), "g" (the key suggestions, a string follows), "n" (an   *)
(* unknown key, an object follows).                                        *)

ScoreTable ==
  { <<"s0", 0>>, <<"s50", 50>>, <<"s300", 300>>, <<"s500", 500>>,
    <<"s900", 900>>, <<"s1000", 1000>>, <<"s1500", 1500>> }
ScoreTokens == { e[1] : e \in ScoreTable }
ScoreValue(tok) == (CHOOSE e \in ScoreTable : e[1] = tok)[2]
ScoreToken(v) == (CHOOSE e \in ScoreTable : e[2] = v)[1]

\* What JSON.parse returns for an object, before validation.
EmptyObject ==
  [passed |-> "missing", score |-> -1, issues |-> FALSE,
   hasSuggestions |-> FALSE, suggestions |-> <<>>]

\* A value that stands for "no feedback" (null).
NullFeedback ==
  [passed |-> FALSE, score |-> -1, issues |-> <<>>, suggestions |-> <<>>,
   reasoning |-> <<>>]

\* String.prototype.trim
RECURSIVE TrimLeft(_)
TrimLeft(t) == IF t # <<>> /\ Head(t) = " " THEN TrimLeft(Tail(t)) ELSE t
RECURSIVE TrimRight(_)
TrimRight(t) ==
  IF t # <<>> /\ t[Len(t)] = " " THEN TrimRight(SubSeq(t, 1, Len(t) - 1)) ELSE t
Trim(t) == TrimRight(TrimLeft(t))

\* First index >= from of a unit of t that is in set, or 0 (indexOf = -1).
RECURSIVE IndexFrom(_, _, _)
IndexFrom(t, from, set) ==
  IF from > Len(t) THEN 0
  ELSE IF t[from] \in set THEN from
  ELSE IndexFrom(t, from + 1, set)

\* JSON.parse of the members of an object, from position pos (just after its
\* opening brace): [ok, pos (after the closing brace), obj].
RECURSIVE JsonMembers(_, _, _)
JsonMembers(t, pos, obj) ==
  LET bad == [ok |-> FALSE, pos |-> pos, obj |-> obj]
  IN
  IF pos > Len(t) THEN bad
  ELSE LET u == t[pos] IN
    CASE u = " "  -> JsonMembers(t, pos + 1, obj)
      [] u = "}"  -> [ok |-> TRUE, pos |-> pos + 1, obj |-> obj]
      [] u = "p1" -> JsonMembers(t, pos + 1, [obj EXCEPT !.passed = "true"])
      [] u = "p0" -> JsonMembers(t, pos + 1, [obj EXCEPT !.passed = "false"])
      [] u = "pX" -> JsonMembers(t, pos + 1, [obj EXCEPT !.passed = "other"])
      [] u \in ScoreTokens ->
           JsonMembers(t, pos + 1, [obj EXCEPT !.score = ScoreValue(u)])
      [] u = "i"  -> JsonMembers(t, pos + 1, [obj EXCEPT !.issues = TRUE])
      [] u = "g"  ->
           LET open  == IndexFrom(t, pos + 1, {"Q"})
               close == IF open = 0 THEN 0 ELSE IndexFrom(t, open + 1, {"Q"})
           IN  IF open = 0 \/ close = 0 \/ Trim(SubSeq(t, pos + 1, open - 1)) # <<>>
               THEN bad
               ELSE JsonMembers(t, close + 1,
                      [obj EXCEPT !.hasSuggestions = TRUE,
                                  !.suggestions = SubSeq(t, open + 1, close - 1)])
      [] u = "n"  ->
           LET open == IndexFrom(t, pos + 1, {"{"})
           IN  IF open = 0 \/ Trim(SubSeq(t, pos + 1, open - 1)) # <<>> THEN bad
               ELSE LET inner == JsonMembers(t, open + 1, EmptyObject)
                    IN  IF inner.ok THEN JsonMembers(t, inner.pos, obj) ELSE bad
      [] OTHER    -> bad

\* JSON.parse(t) followed by DiscriminatorFeedbackSchema.parse: the body of
\* the try blocks.  [threw, fb]: threw when either of the two throws.
ParseAndValidate(t) ==
  LET body  == TrimLeft(t)
      r     == IF body # <<>> /\ Head(body) = "{"
               THEN JsonMembers(body, 2, EmptyObject)
               ELSE [ok |-> FALSE, pos |-> 1, obj |-> EmptyObject]
      jsonOk  == r.ok /\ Trim(SubSeq(body, r.pos, Len(body))) = <<>>
      o       == r.obj
      valid   == /\ o.passed \in {"true", "false"}
                 /\ o.score >= 0 /\ o.score <= 1000
                 /\ o.issues
                 /\ o.hasSuggestions
  IN  IF jsonOk /\ valid
      THEN [threw |-> FALSE,
            fb |-> [passed |-> (o.passed = "true"), score |-> o.score,
                    issues |-> <<"i">>, suggestions |-> o.suggestions,
                    reasoning |-> <<>>]]
      ELSE [threw |-> TRUE, fb |-> NullFeedback]

\* Faulty variant: a strategy without its catch
TryCatchNullRethrow(r) ==
  IF r.threw THEN [status |-> "throw", fb |-> NullFeedback]
  ELSE [status |-> "value", fb |-> r.fb]

\* try { ... return validated } catch { return null }: what a strategy returns.
\* status: "value" (a feedback), "null", or "throw" (an exception escaped).
TryCatchNull(r) ==
  IF r.threw THEN [status |-> "null", fb |-> NullFeedback]
  ELSE [status |-> "value", fb |-> r.fb]

NullResult == [status |-> "null", fb |-> NullFeedback]

\* Strategy 1: tryParseDirectJson
TryParseDirectJson(response) == TryCatchNull(ParseAndValidate(Trim(response)))

\* response.match(/```json\s*([\s\S]*?)```/)?.[1], <<>> when there is no match
RECURSIVE JsonFenceStart(_, _)
JsonFenceStart(t, from) ==
  IF from + 1 > Len(t) THEN 0
  ELSE IF t[from] = "F" /\ t[from + 1] = "j" THEN from
  ELSE JsonFenceStart(t, from + 1)

\* The group captured between position after (exclusive) and the next fence:
\* \s* is greedy, the group lazy.  [matched, group].
CaptureToFence(t, after) ==
  LET close == IndexFrom(t, after + 1, {"F"})
  IN  IF close = 0 THEN [matched |-> FALSE, group |-> <<>>]
      ELSE [matched |-> TRUE, group |-> TrimLeft(SubSeq(t, after + 1, close - 1))]

JsonBlockMatch(t) ==
  LET i == JsonFenceStart(t, 1)
  IN  IF i = 0 THEN [matched |-> FALSE, group |-> <<>>] ELSE CaptureToFence(t, i + 1)

\* response.match(/```\s*([\s\S]*?)```/)
GenericBlockMatch(t) ==
  LET i == IndexFrom(t, 1, {"F"})
  IN  IF i = 0 THEN [matched |-> FALSE, group |-> <<>>] ELSE CaptureToFence(t, i)

\* Strategy 2: tryParseCodeBlock
TryParseCodeBlock(response) ==
  LET jm == JsonBlockMatch(response)
      jr == IF jm.matched /\ jm.group # <<>>
            THEN TryCatchNull(ParseAndValidate(Trim(jm.group)))
            ELSE NullResult
      gm == GenericBlockMatch(response)
      gr == IF gm.matched /\ gm.group # <<>>
            THEN TryCatchNull(ParseAndValidate(Trim(gm.group)))
            ELSE NullResult
  IN  IF jr.status # "null" THEN jr ELSE gr

\* Faulty variant: the scan stopping at the first closing brace, whatever the depth
RECURSIVE MatchingBraceFirstClose(_, _, _)
MatchingBraceFirstClose(t, i, depth) ==
  IF i > Len(t) THEN 0
  ELSE IF t[i] = "}" THEN i
  ELSE MatchingBraceFirstClose(t, i + 1, depth)

\* The depth-counting scan of tryExtractBalancedJson: the index of the brace
\* that brings the depth back to 0, or 0 when there is none (endIndex = -1).
RECURSIVE MatchingBrace(_, _, _)
MatchingBrace(t, i, depth) ==
  IF i > Len(t) THEN 0
  ELSE IF t[i] = "{" THEN MatchingBrace(t, i + 1, depth + 1)
  ELSE IF t[i] = "}"
       THEN IF depth - 1 = 0 THEN i ELSE MatchingBrace(t, i + 1, depth - 1)
  ELSE MatchingBrace(t, i + 1, depth)

\* Strategy 3: tryExtractBalancedJson
TryExtractBalancedJson(response) ==
  LET startIndex == IndexFrom(response, 1, {"{"})
      endIndex   == IF startIndex = 0 THEN 0 ELSE MatchingBrace(response, startIndex, 0)
  IN  IF startIndex = 0 \/ endIndex = 0 THEN NullResult
      ELSE TryCatchNull(ParseAndValidate(SubSeq(response, startIndex, endIndex)))

\* createFallbackFeedback
FallbackScore == 300
FallbackFeedback ==
  [passed |-> FALSE, score |-> FallbackScore,
   issues |-> <<"Evaluation response could not be parsed",
                "The evaluator did not return valid JSON feedback">>,
   suggestions |-> <<"The system will retry the evaluation.">>,
   reasoning |-> <<"Parse error occurred; this is a system issue">>]

\* parseResponse: the first strategy with a result wins, else the fallback.
\* An exception that escapes a strategy escapes parseResponse.
ParseResponse(response) ==
  LET r1 == TryParseDirectJson(response)
      r2 == TryParseCodeBlock(response)
      r3 == TryExtractBalancedJson(response)
  IN  IF r1.status # "null" THEN r1
      ELSE IF r2.status # "null" THEN r2
      ELSE IF r3.status # "null" THEN r3
      ELSE [status |-> "value", fb |-> FallbackFeedback]

---------------------------------------------------------------------------
(* RalphOrchestrator (core/orchestrator/ralph.orchestrator.ts)             *)

MaxIter == 4             \* largest maxIterations an execution is started with

\* The payload text of a feedback: its members, then the string suggestions.
RenderPayload(passedTok, scoreTok, str, nested) ==
  <<"{", passedTok>> \o (IF nested THEN <<"n", "{", "}">> ELSE <<>>)
    \o <<scoreTok, "i", "g", "Q">> \o str \o <<"Q", "}">>

\* The evaluator responses the executions of the model receive.
EvalTexts ==
  { RenderPayload("p1", "s900", <<"x">>, FALSE),
    RenderPayload("p0", "s900", <<"x">>, FALSE),
    <<"F", "j", " ">> \o RenderPayload("p1", "s500", <<"x">>, FALSE) \o <<" ", "F">>,
    <<"x", " ">> \o RenderPayload("p0", "s50", <<"x">>, TRUE) \o <<" ", "x">>,
    RenderPayload("p1", "s1500", <<"x">>, FALSE),
    <<"x", " ", "x">> }

\* The errors a runner call ends with once retry has given up.
Causes == {"LLM_RATE_LIMIT_ERROR", "LLM_AUTHENTICATION_ERROR"}
ScoreThresholds == {500, 900}
ConditionNames == {"threshold", "max_iterations", "stagnation", "early_termination"}

NoResult ==
  [returned |-> FALSE, success |-> FALSE, output |-> 0, iterations |-> 0,
   finalScore |-> 0, reason |-> "undefined", iterationHistory |-> <<>>]
NoError ==
  [raised |-> FALSE, code |-> "none", cause |-> "none",
   context |-> [workflowId |-> "none", originalError |-> "none"]]

\* Faulty variant: the loop bound off by one
LoopContinuesOffByOne(it, maxIterations) == it <= maxIterations + 1

\* for (...; iteration <= params.maxIterations; ...)
LoopContinues(it, maxIterations) == it <= maxIterations

\* Faulty variant: the iteration numbered from 0
IterationStateZeroBased(it, output, feedback) ==
  [number |-> it - 1, generatorOutput |-> output, feedback |-> feedback]

\* The IterationState pushed by iteration it.
IterationStateOf(it, output, feedback) ==
  [number |-> it, generatorOutput |-> output, feedback |-> feedback]

\* The StopConditionContext of iteration it.
StopContext(it, p, its, feedback) ==
  [currentIteration |-> it, maxIterations |-> p.maxIterations,
   scoreThreshold |-> p.scoreThreshold, iterations |-> its,
   currentScore |-> feedback.score, currentPassed |-> feedback.passed]

\* stopResult.reason ?? "threshold_reached"
ReasonOf(stopResult) ==
  IF stopResult.reason = "undefined" THEN "threshold_reached" ELSE stopResult.reason

\* Faulty variant: success for every stop that a condition decided
WorkflowResultOfAnyStop(its, output, feedback, reason) ==
  [returned |-> TRUE,
   success |-> (reason # "max_iterations"),
   output |-> output,
   iterations |-> Len(its),
   finalScore |-> IF feedback = NullFeedback THEN 0 ELSE feedback.score,
   reason |-> reason,
   iterationHistory |-> its]

\* The WorkflowResult built after the loop.
WorkflowResultOf(its, output, feedback, reason) ==
  [returned |-> TRUE,
   success |-> (reason = "threshold_reached"),
   output |-> output,
   iterations |-> Len(its),
   finalScore |-> IF feedback = NullFeedback THEN 0 ELSE feedback.score,
   reason |-> reason,
   iterationHistory |-> its]

\* Faulty variant: the error built without its cause
WorkflowExecutionErrorNoCause(cause) ==
  [raised |-> TRUE, code |-> "WORKFLOW_EXECUTION_ERROR", cause |-> "none",
   context |-> [workflowId |-> "wf", originalError |-> "none"]]

\* new WorkflowExecutionError(workflowId, cause)
WorkflowExecutionError(cause) ==
  [raised |-> TRUE, code |-> "WORKFLOW_EXECUTION_ERROR", cause |-> cause,
   context |-> [workflowId |-> "wf", originalError |-> cause]]

\* The entry logger.error writes in the catch block of execute.
FailureLogEntry(cause, its) ==
  [message |-> "Workflow execution failed", error |-> cause,
   iterationsCompleted |-> Len(its)]

\* Faulty variant: the generator is never handed the previous feedback
GenerateCallWithoutFeedback(it, feedback) ==
  [stage |-> "generate", iteration |-> it, previousFeedback |-> NullFeedback,
   output |-> 0, rejected |-> "no"]

\* this.generator.run({ task, previousFeedback: lastFeedback, iterationNumber })
\* and this.discriminator.run({ output: currentOutput, criteria, task })
GenerateCall(it, feedback) ==
  [stage |-> "generate", iteration |-> it, previousFeedback |-> feedback, output |-> 0,
   rejected |-> "no"]
EvaluateCall(it, output) ==
  [stage |-> "evaluate", iteration |-> it, previousFeedback |-> NullFeedback,
   output |-> output, rejected |-> "no"]

OrchIdle ==
  /\ pc = "idle" /\ conditions = <<>> /\ params = [maxIterations |-> 0, scoreThreshold |-> 0]
  /\ iteration = 0 /\ iterations = <<>> /\ currentOutput = 0
  /\ lastFeedback = NullFeedback /\ stopReason = "undefined"
  /\ result = NoResult /\ thrown = NoError /\ errorLog = <<>> /\ calls = <<>>

\* new RalphOrchestrator(config): the default stop conditions
OrchInit ==
  /\ pc = "config" /\ conditions = DefaultConditions
  /\ params = [maxIterations |-> 0, scoreThreshold |-> 0]
  /\ iteration = 0 /\ iterations = <<>> /\ currentOutput = 0
  /\ lastFeedback = NullFeedback /\ stopReason = "undefined"
  /\ result = NoResult /\ thrown = NoError /\ errorLog = <<>> /\ calls = <<>>

\* CompositeStopCondition.addCondition (the model adds no name twice)
AddCondition(name) ==
  /\ pc = "config"
  /\ \A i \in 1..Len(conditions) : conditions[i] # name
  /\ conditions' = Append(conditions, name)
  /\ UNCHANGED <<pc, params, iteration, iterations, currentOutput, lastFeedback,
                 stopReason, result, thrown, errorLog, calls>>

\* CompositeStopCondition.removeCondition
RemoveCondition(name) ==
  /\ pc = "config"
  /\ conditions' = SelectSeq(conditions, LAMBDA c : c # name)
  /\ conditions' # conditions
  /\ UNCHANGED <<pc, params, iteration, iterations, currentOutput, lastFeedback,
                 stopReason, result, thrown, errorLog, calls>>

\* The loop header reached with loop variable it: either the generator call
\* of iteration it is issued, or the loop is over and execute returns.
EnterIteration(it, its, output, feedback, reason, p) ==
  /\ iteration' = it
  /\ IF LoopContinues(it, p.maxIterations)
     THEN /\ pc' = "generating"
          /\ calls' = Append(calls, GenerateCall(it, feedback))
          /\ result' = result
     ELSE /\ pc' = "done"
          /\ calls' = calls
          /\ result' = WorkflowResultOf(its, output, feedback, reason)

\* execute(params), up to its first await
Execute(maxIterations, scoreThreshold) ==
  /\ pc = "config"
  /\ params' = [maxIterations |-> maxIterations, scoreThreshold |-> scoreThreshold]
  /\ iterations' = <<>> /\ currentOutput' = 0 /\ lastFeedback' = NullFeedback
  /\ stopReason' = "max_iterations"
  /\ EnterIteration(1, <<>>, 0, NullFeedback, "max_iterations", params')
  /\ UNCHANGED <<conditions, thrown, errorLog>>

\* The awaited runner call rejects with cause (noted on the call): the catch
\* block of execute.
Abort(cause) ==
  /\ pc' = "failed"
  /\ errorLog' = Append(errorLog, FailureLogEntry(cause, iterations))
  /\ thrown' = WorkflowExecutionError(cause)
  /\ calls' = [calls EXCEPT ![Len(calls)].rejected = cause]
  /\ UNCHANGED <<conditions, params, iteration, iterations, currentOutput,
                 lastFeedback, stopReason, result>>

\* generator.run resolves: the candidate of the k-th generation is named k;
\* the discriminator call is issued.
GeneratorReturns ==
  /\ pc = "generating"
  /\ currentOutput' = iteration
  /\ calls' = Append(calls, EvaluateCall(iteration, currentOutput'))
  /\ pc' = "evaluating"
  /\ UNCHANGED <<conditions, params, iteration, iterations, lastFeedback,
                 stopReason, result, thrown, errorLog>>

\* generator.run rejects
GeneratorFails(cause) == pc = "generating" /\ Abort(cause)

\* discriminator.run rejects
DiscriminatorFails(cause) == pc = "evaluating" /\ Abort(cause)

\* discriminator.run resolves with the feedback parsed from text: the
\* iteration is recorded, the stop conditions are evaluated, and execute runs
\* on to its next await or to its return.
RecordIteration(feedback) ==
  LET state      == IterationStateOf(iteration, currentOutput, feedback)
      its        == Append(iterations, state)
      stopResult == CompositeEvaluate(conditions,
                       StopContext(iteration, params, its, feedback), DefaultStopConfig)
  IN  /\ lastFeedback' = feedback
      /\ iterations' = its
      /\ IF stopResult.shouldStop
         THEN /\ stopReason' = ReasonOf(stopResult)
              /\ pc' = "done"
              /\ result' = WorkflowResultOf(its, currentOutput, feedback, stopReason')
              /\ UNCHANGED <<iteration, calls>>
         ELSE /\ stopReason' = stopReason
              /\ EnterIteration(iteration + 1, its, currentOutput, feedback,
                                stopReason, params)
      /\ UNCHANGED <<conditions, params, currentOutput, thrown, errorLog>>

DiscriminatorReturns(text) ==
  /\ pc = "evaluating"
  /\ LET parsed == ParseResponse(text)
     IN  IF parsed.status = "throw"
         THEN Abort("PARSE_ERROR")
         ELSE RecordIteration(parsed.fb)

---------------------------------------------------------------------------
(* Harness of the stop conditions: a context is built, a predicate is      *)
(* evaluated on it.                                                        *)

MaxHist == 4             \* longest iteration history of a context
HistScores == {500, 505, 510}
CurScores == {50, 100, 300, 500, 509, 620, 900}
StagnationWindows == {2, DefaultMaxStagnantIterations}
ImprovementThresholds == {DefaultImprovementThreshold, 50}
CompositeLists ==
  { DefaultConditions,
    <<"early_termination", "stagnation", "max_iterations", "threshold">> }

RECURSIVE SeqsUpTo(_, _)
SeqsUpTo(S, n) ==
  IF n = 0 THEN {<<>>}
  ELSE LET shorter == SeqsUpTo(S, n - 1)
       IN  shorter \cup { Append(q, x) : q \in {r \in shorter : Len(r) = n - 1}, x \in S }

HarnessFeedback(passed, score) ==
  [passed |-> passed, score |-> score, issues |-> <<"i">>, suggestions |-> <<"x">>,
   reasoning |-> <<>>]

\* The iteration history whose scores are scores, the last one with passed.
HistoryOf(scores, passed) ==
  [i \in 1..Len(scores) |->
     IterationStateOf(i, i, HarnessFeedback(IF i = Len(scores) THEN passed ELSE FALSE,
                                            scores[i]))]

StopIdle ==
  /\ ctx = StopContext(0, [maxIterations |-> 0, scoreThreshold |-> 0], <<>>, NullFeedback)
  /\ stopCfg = [DefaultStopConfig EXCEPT !.conditions = <<>>]
  /\ decision = NoStop /\ spc = "idle"

StopInit ==
  /\ \E prefix \in SeqsUpTo(HistScores, MaxHist - 1), cur \in CurScores,
        passed \in BOOLEAN, more \in {0, 1}, t \in ScoreThresholds :
        LET its == HistoryOf(Append(prefix, cur), passed)
        IN  ctx = StopContext(Len(its),
                    [maxIterations |-> Len(its) + more, scoreThreshold |-> t],
                    its, its[Len(its)].feedback)
  /\ \E w \in StagnationWindows, imp \in ImprovementThresholds, l \in CompositeLists :
        stopCfg = [DefaultStopConfig EXCEPT !.maxStagnantIterations = w,
                                            !.improvementThreshold = imp,
                                            !.conditions = l]
  /\ decision = NoStop /\ spc = "ready"

\* One predicate is evaluated on the context.
EvaluateCondition(name) ==
  /\ spc = "ready"
  /\ decision' = ConditionEvaluate(name, ctx, stopCfg)
  /\ spc' = name
  /\ UNCHANGED <<ctx, stopCfg>>

\* The composite of stopCfg.conditions is evaluated on the context.
EvaluateComposite ==
  /\ spc = "ready"
  /\ decision' = CompositeEvaluate(stopCfg.conditions, ctx, stopCfg)
  /\ spc' = "composite"
  /\ UNCHANGED <<ctx, stopCfg>>

---------------------------------------------------------------------------
(* Harness of the response interpreter: a text is built, parseResponse is  *)
(* applied to it.                                                          *)

MaxRawLen == 4           \* longest arbitrary text
RawAlphabet == {"{", "}", "Q", "F", "j", "x", "p1"}
\* contents of the string field of a payload
StringContents ==
  { <<>>, <<"x">>, <<"x", " ", "x">>, <<"}">>, <<"{">>, <<"{", "x", "}">>, <<"F">>,
    <<"F", "x", "F">>, <<"F", "{">> }
\* prose around a payload
Proses == { <<>>, <<"x", " ">>, <<" ", "x">>, <<"x", "{", "x", "}", " ">>,
            <<"x", "F", " ">> }
PayloadScores == {0, 300, 1000}
InvalidMembers == { <<"pX", "s300">>, <<"p1", "s1500">>, <<"p1">>, <<"s300">> }

\* The text of a valid payload: what the evaluator writes for feedback fb.
Render(fb, nested) ==
  RenderPayload(IF fb.passed THEN "p1" ELSE "p0", ScoreToken(fb.score),
                fb.suggestions, nested)

\* The text of the given form around payload text p.
WrapText(form, p, pre, post) ==
  CASE form = "alone"   -> p
    [] form = "padded"  -> <<" ">> \o p \o <<" ">>
    [] form = "fenced"  -> pre \o <<"F", "j", " ">> \o p \o <<" ", "F">> \o post
    [] form = "generic" -> pre \o <<"F", " ">> \o p \o <<" ", "F">> \o post
    [] form = "prose"   -> pre \o p \o post

NoWrap == [form |-> "none", fb |-> NullFeedback, pre |-> <<>>, post |-> <<>>]

ParseIdle ==
  content = <<>> /\ wrap = NoWrap /\ interp = NullResult /\ ppc = "idle"

ParseInit ==
  /\ \/ \E t \in SeqsUpTo(RawAlphabet, MaxRawLen) :
          content = t /\ wrap = [NoWrap EXCEPT !.form = "raw"]
     \/ \E passed \in BOOLEAN, score \in PayloadScores, str \in StringContents,
           nested \in BOOLEAN, form \in {"alone", "padded", "fenced", "generic", "prose"},
           pre \in Proses, post \in Proses :
          LET fb == [passed |-> passed, score |-> score, issues |-> <<"i">>,
                     suggestions |-> str, reasoning |-> <<>>]
          IN  /\ form \in {"alone", "padded"} => pre = <<>> /\ post = <<>>
              /\ form = "prose" => pre \o post # <<>>
              /\ wrap = [form |-> form, fb |-> fb, pre |-> pre, post |-> post]
              /\ content = WrapText(form, Render(fb, nested), pre, post)
     \/ \E m \in InvalidMembers, pre \in Proses :
          /\ wrap = [NoWrap EXCEPT !.form = "invalid", !.pre = pre]
          /\ content = pre \o <<"{">> \o m \o <<"i", "g", "Q", "x", "Q", "}">>
  /\ interp = NullResult /\ ppc = "ready"

\* parseResponse(response)
Interpret ==
  /\ ppc = "ready"
  /\ interp' = ParseResponse(content)
  /\ ppc' = "done"
  /\ UNCHANGED <<content, wrap>>

---------------------------------------------------------------------------
(* retry (shared/utils/retry)                                              *)

MaxAttempts == 3         \* largest maxAttempts retry is called with
DefaultInitialDelayMs == 1000
DefaultBackoffMultiplier == 2
RunnerMaxDelayMs == 10000
DefaultMaxDelayMs == 30000
\* Math.random(), in thousandths
RandomDraws == {0, 500, 999}

\* The errors fn rejects with: the key words its lower-cased message holds,
\* and its status / statusCode (-1 when it has none).
Errors ==
  { [name |-> "LLM_RATE_LIMIT", words |-> {"rate limit"}, status |-> 429],
    [name |-> "LLM_AUTHENTICATION_ERROR", words |-> {}, status |-> 401],
    [name |-> "ECONNREFUSED", words |-> {"econnrefused"}, status |-> -1],
    [name |-> "Error", words |-> {}, status |-> -1] }
\* The errors AnthropicProvider / OpenAIProvider.handleError throws besides
\* the two above.  The message of an LLMProviderError holds the message of
\* the API error; that of an LLMTimeoutError is "LLM request to <provider>
\* timed out after 60000ms".
ProviderErrors ==
  { [name |-> "LLM_TIMEOUT", words |-> {}, status |-> 504],
    [name |-> "LLM_PROVIDER_ERROR", words |-> {}, status |-> 502],
    [name |-> "LLM_PROVIDER_ERROR econnrefused", words |-> {"econnrefused"},
     status |-> 502] }
NoErrorValue == [name |-> "none", words |-> {}, status |-> -1]
CallbackError == [name |-> "CALLBACK_ERROR", words |-> {}, status |-> -1]
UndefinedError == [name |-> "undefined", words |-> {}, status |-> -1]

RetryKeyWords ==
  {"econnrefused", "etimedout", "enotfound", "network", "socket",
   "rate limit", "429", "500", "502", "503", "timeout"}

\* defaultShouldRetry(error, attempt)
DefaultShouldRetry(error) ==
  IF error.words \cap RetryKeyWords # {} THEN TRUE
  ELSE IF error.status # -1 THEN error.status = 429 \/ error.status >= 500
  ELSE FALSE

\* options.backoffMultiplier is the fraction num / den; the delays of
\* calculateDelay(attempt, options) before Math.floor are fractions over
\* den ^ (attempt - 1)
DefaultMultiplier == [num |-> DefaultBackoffMultiplier, den |-> 1]
DelayScale(att, o) == o.backoffMultiplier.den ^ (att - 1)
\* exponentialDelay and cappedDelay, times DelayScale
ExponentialDelay(att, o) == o.initialDelayMs * o.backoffMultiplier.num ^ (att - 1)
CappedDelay(att, o) ==
  IF ExponentialDelay(att, o) < o.maxDelayMs * DelayScale(att, o)
  THEN ExponentialDelay(att, o)
  ELSE o.maxDelayMs * DelayScale(att, o)

\* Faulty variant: the delay is not capped
CalculateDelayUncapped(att, o, random) ==
  IF o.jitter
  THEN (ExponentialDelay(att, o) * 1000 + ExponentialDelay(att, o) * random)
         \div (1000 * DelayScale(att, o))
  ELSE ExponentialDelay(att, o) \div DelayScale(att, o)

\* calculateDelay(attempt, options), random the value Math.random() returns
\* in thousandths
CalculateDelay(att, o, random) ==
  IF o.jitter
  THEN (CappedDelay(att, o) * 1000 + CappedDelay(att, o) * random)
         \div (1000 * DelayScale(att, o))
  ELSE CappedDelay(att, o) \div DelayScale(att, o)

MaxDelayAttempt == 6     \* largest attempt calculateDelay is called with
Multipliers == { [num |-> 1, den |-> 1], [num |-> 3, den |-> 2], DefaultMultiplier }
NoDelayOptions ==
  [initialDelayMs |-> 0, maxDelayMs |-> 0, backoffMultiplier |-> DefaultMultiplier,
   jitter |-> FALSE]
NoDelay ==
  [attempt |-> 0, options |-> NoDelayOptions, random |-> 0, out |-> 0, done |-> FALSE]
DelayIdle == dly = NoDelay

\* calculateDelay is about to be called with an attempt and options
DelayInit ==
  \E att \in 1..MaxDelayAttempt, initial \in {0, 1, DefaultInitialDelayMs},
     maxDelay \in {RunnerMaxDelayMs, DefaultMaxDelayMs}, m \in Multipliers,
     jitter \in BOOLEAN :
     dly = [NoDelay EXCEPT !.attempt = att,
                           !.options = [initialDelayMs |-> initial,
                                        maxDelayMs |-> maxDelay,
                                        backoffMultiplier |-> m, jitter |-> jitter]]

\* calculateDelay(attempt, options) returns
CalculateDelayCall(random) ==
  /\ dly.attempt > 0 /\ ~dly.done
  /\ dly' = [dly EXCEPT !.random = random,
                        !.out = CalculateDelay(dly.attempt, dly.options, random),
                        !.done = TRUE]

NoOutcome == [kind |-> "none", value |-> 0, error |-> NoErrorValue]

RetryIdle ==
  /\ rpc = "idle" /\ attempt = 0 /\ events = <<>> /\ outcome = NoOutcome
  /\ script = <<>> /\ apiErrors = <<>>
  /\ opts = [maxAttempts |-> 0, initialDelayMs |-> 0, maxDelayMs |-> 0,
             backoffMultiplier |-> DefaultMultiplier,
             jitter |-> FALSE, onRetry |-> "none"]

\* A call retry(fn, options): fn is given by what each of its invocations
\* does ("ok": resolves; an error: rejects with it), options.onRetry is
\* absent ("none"), returns normally ("returns") or throws ("throws").
RetryInit ==
  /\ rpc = "ready" /\ attempt = 0 /\ events = <<>> /\ outcome = NoOutcome
  /\ \E n \in 0..MaxAttempts, maxDelay \in {RunnerMaxDelayMs, DefaultMaxDelayMs},
        jitter \in BOOLEAN, cb \in {"none", "returns", "throws"} :
        /\ opts = [maxAttempts |-> n, initialDelayMs |-> DefaultInitialDelayMs,
                   maxDelayMs |-> maxDelay, backoffMultiplier |-> DefaultMultiplier,
                   jitter |-> jitter, onRetry |-> cb]
        /\ script \in [1..n -> {"ok"} \cup {e.name : e \in Errors}]
  /\ apiErrors = <<>>

ErrorNamed(n) == CHOOSE e \in Errors \cup ProviderErrors : e.name = n

CallEvent(att) == [kind |-> "call", attempt |-> att, delayMs |-> 0]
OnRetryEvent(att, d) == [kind |-> "onRetry", attempt |-> att, delayMs |-> d]
SleepEvent(att, d) == [kind |-> "sleep", attempt |-> att, delayMs |-> d]

\* The loop header of retry with loop variable att: fn is called, or the
\* loop is over and lastError is thrown.
RetryLoop(att, evs, lastError) ==
  /\ attempt' = att
  /\ IF att <= opts.maxAttempts
     THEN /\ rpc' = "calling"
          /\ events' = Append(evs, CallEvent(att))
          /\ outcome' = outcome
     ELSE /\ rpc' = "thrown"
          /\ events' = evs
          /\ outcome' = [kind |-> "thrown", value |-> 0, error |-> lastError]

\* retry(fn, options), up to its first await
RetryStart ==
  /\ rpc = "ready"
  /\ RetryLoop(1, events, UndefinedError)
  /\ UNCHANGED <<opts, script, apiErrors>>

\* fn() resolves: retry returns its value (the value of invocation k is k)
FnResolves ==
  /\ rpc = "calling"
  /\ script[attempt] = "ok"
  /\ rpc' = "returned"
  /\ outcome' = [kind |-> "returned", value |-> attempt, error |-> NoErrorValue]
  /\ UNCHANGED <<opts, script, apiErrors, attempt, events>>

\* fn() rejects: the catch block of retry, up to the throw or to the sleep
\* Faulty variant: the last attempt waits and loops like the others
GivesUpOnFatalOnly(att, o, error) == ~DefaultShouldRetry(error)

\* Faulty variant: only the last attempt ends the loop
GivesUpOnLastAttemptOnly(att, o, error) == att = o.maxAttempts

\* if (attempt === opts.maxAttempts) throw error;
\* if (!shouldRetry(error, attempt)) throw error;
GivesUp(att, o, error) == att = o.maxAttempts \/ ~DefaultShouldRetry(error)

FnRejects(random) ==
  /\ rpc = "calling"
  /\ script[attempt] # "ok"
  /\ LET error   == ErrorNamed(script[attempt])
         delayMs == CalculateDelay(attempt, opts, random)
         thrown_ == [kind |-> "thrown", value |-> 0, error |-> error]
     IN  IF GivesUp(attempt, opts, error)
         THEN /\ rpc' = "thrown" /\ outcome' = thrown_ /\ events' = events
         ELSE IF opts.onRetry = "throws"
         THEN /\ rpc' = "thrown"
              /\ outcome' = [thrown_ EXCEPT !.error = CallbackError]
              /\ events' = Append(events, OnRetryEvent(attempt, delayMs))
         ELSE /\ rpc' = "sleeping"
              /\ outcome' = outcome
              /\ events' = (IF opts.onRetry = "returns"
                            THEN Append(events, OnRetryEvent(attempt, delayMs))
                            ELSE events) \o <<SleepEvent(attempt, delayMs)>>
  /\ UNCHANGED <<opts, script, apiErrors, attempt>>

\* What the API does at a request that fails: isApiError is
\* "error instanceof APIError", isTimeout is "error instanceof
\* APIConnectionTimeoutError" (both SDK class hierarchies are covered), status
\* is the HTTP status (-1: none), words the key words of its message.
ApiFailures ==
  { [name |-> "400", isApiError |-> TRUE, isTimeout |-> FALSE, status |-> 400, words |-> {}],
    [name |-> "401", isApiError |-> TRUE, isTimeout |-> FALSE, status |-> 401, words |-> {}],
    [name |-> "404", isApiError |-> TRUE, isTimeout |-> FALSE, status |-> 404, words |-> {}],
    [name |-> "408", isApiError |-> TRUE, isTimeout |-> FALSE, status |-> 408, words |-> {}],
    [name |-> "429", isApiError |-> TRUE, isTimeout |-> FALSE, status |-> 429, words |-> {}],
    [name |-> "500", isApiError |-> TRUE, isTimeout |-> FALSE, status |-> 500, words |-> {}],
    [name |-> "connection timeout", isApiError |-> FALSE, isTimeout |-> TRUE,
     status |-> -1, words |-> {}],
    [name |-> "connection timeout (api)", isApiError |-> TRUE, isTimeout |-> TRUE,
     status |-> -1, words |-> {}],
    [name |-> "ECONNREFUSED", isApiError |-> FALSE, isTimeout |-> FALSE,
     status |-> -1, words |-> {"econnrefused"}] }
ApiFailureNamed(n) == CHOOSE f \in ApiFailures : f.name = n

\* new LLMProviderError(this.name, message): its message holds message
LLMProviderError(words) ==
  IF "econnrefused" \in words THEN "LLM_PROVIDER_ERROR econnrefused"
  ELSE "LLM_PROVIDER_ERROR"

\* handleError(error, model, startTime): the name of the error it throws
HandleError(f) ==
  IF f.isApiError
  THEN IF f.status = 408 \/ "timeout" \in f.words THEN "LLM_TIMEOUT"
       ELSE IF f.status = 429 THEN "LLM_RATE_LIMIT"
       ELSE IF f.status = 401 THEN "LLM_AUTHENTICATION_ERROR"
       ELSE LLMProviderError(f.words)
  ELSE IF f.isTimeout THEN "LLM_TIMEOUT"
  ELSE LLMProviderError(f.words)

\* BaseRunner.executeCompletion: retry(() => this.provider.complete(...),
\* { ...this.retryOptions, onRetry: logger.warn }); each request of complete
\* succeeds or fails as apiErrors says, a failure going through handleError.
RunnerInit ==
  /\ rpc = "ready" /\ attempt = 0 /\ events = <<>> /\ outcome = NoOutcome
  /\ \E n \in 1..MaxAttempts :
        /\ opts = [maxAttempts |-> n, initialDelayMs |-> DefaultInitialDelayMs,
                   maxDelayMs |-> RunnerMaxDelayMs,
                   backoffMultiplier |-> DefaultMultiplier, jitter |-> TRUE,
                   onRetry |-> "returns"]
        /\ apiErrors \in [1..n -> {"ok"} \cup {f.name : f \in ApiFailures}]
  /\ script = [i \in DOMAIN apiErrors |->
                 IF apiErrors[i] = "ok" THEN "ok"
                 ELSE HandleError(ApiFailureNamed(apiErrors[i]))]

\* sleep(delayMs) resolves: the next iteration of the loop
SleepDone ==
  /\ rpc = "sleeping"
  /\ RetryLoop(attempt + 1, events, ErrorNamed(script[attempt]))
  /\ UNCHANGED <<opts, script, apiErrors>>

---------------------------------------------------------------------------
(* InMemoryStore, ResilientRedisClient, WorkflowStateStore                 *)

MaxClock == 3            \* the clock stops here
MaxStoreIterations == 1  \* iterations addIteration appends to one snapshot
MaxReconnectAttempts == 10
StoreTtl == 2            \* WorkflowStateStoreOptions.ttlSeconds, in ticks
NoTtl == -1              \* ttlSeconds undefined
NoExpiry == -1           \* expireAt null
KeyPrefix == "workflow:state:"
StoreIds == {"w1", "w2"}

\* getKey(workflowId)
GetKey(id) == <<KeyPrefix, id>>
\* key.replace(this.keyPrefix, "")
IdOfKey(key) == key[2]
StoreKeys == { GetKey(id) : id \in StoreIds }

EmptyMap == [k \in {} |-> 0]
MapPut(m, k, v) == [x \in DOMAIN m \cup {k} |-> IF x = k THEN v ELSE m[x]]
MapRemove(m, k) == [x \in DOMAIN m \ {k} |-> m[x]]

\* A WorkflowState.  stopReason "undefined" and completedAt -1: field absent.
SnapshotFields ==
  {"id", "status", "currentIteration", "iterations", "updatedAt", "stopReason",
   "completedAt"}
Defined(state, k) ==
  CASE k = "stopReason"  -> state[k] # "undefined"
    [] k = "completedAt" -> state[k] # -1
    [] OTHER             -> TRUE
Absent(k) == IF k = "stopReason" THEN "undefined" ELSE -1
NullSnapshot ==
  [id |-> "null", status |-> "null", currentIteration |-> 0, iterations |-> <<>>,
   updatedAt |-> 0, stopReason |-> "undefined", completedAt |-> -1]
NullData == [null |-> TRUE]

\* Faulty variant: the iteration history left out of the stored text
StringifyWithoutIterations(state) ==
  [k \in {f \in SnapshotFields \ {"iterations"} : Defined(state, f)} |-> state[k]]

\* JSON.stringify(state): the members whose value is not undefined
Stringify(state) ==
  [k \in {f \in SnapshotFields : Defined(state, f)} |-> state[k]]

\* JSON.parse(data) as WorkflowState: a member that is not there reads undefined
JsonParse(data) ==
  [k \in SnapshotFields |->
     IF k \in DOMAIN data THEN data[k]
     ELSE IF k = "iterations" THEN <<>> ELSE Absent(k)]

\* ---- InMemoryStore: each operation gives the new map and what it returns
Expired(entry, t) == entry.expireAt # NoExpiry /\ t > entry.expireAt

InMemoryGet(m, key, t) ==
  IF key \notin DOMAIN m THEN [store |-> m, out |-> NullData]
  ELSE IF Expired(m[key], t) THEN [store |-> MapRemove(m, key), out |-> NullData]
  ELSE [store |-> m, out |-> m[key].value]

InMemorySet(m, key, value, ttlSeconds, t) ==
  [store |-> MapPut(m, key, [value |-> value,
                             expireAt |-> IF ttlSeconds # NoTtl THEN t + ttlSeconds
                                          ELSE NoExpiry]),
   out |-> NullData]

InMemoryDel(m, key) ==
  [store |-> MapRemove(m, key), out |-> IF key \in DOMAIN m THEN 1 ELSE 0]

InMemoryKeys(m) == [store |-> m, out |-> DOMAIN m]

InMemoryExists(m, key, t) ==
  IF key \notin DOMAIN m THEN [store |-> m, out |-> 0]
  ELSE IF Expired(m[key], t) THEN [store |-> MapRemove(m, key), out |-> 0]
  ELSE [store |-> m, out |-> 1]

\* ---- The Redis server behind ioredis: GET, SETEX / SET, DEL, KEYS, EXISTS.
\* A key whose time to live has passed is not there.
RedisLive(db, key, t) == key \in DOMAIN db /\ ~Expired(db[key], t)
RedisGet(db, key, t) ==
  [store |-> db, out |-> IF RedisLive(db, key, t) THEN db[key].value ELSE NullData]
RedisSet(db, key, value, ttlSeconds, t) ==
  [store |-> MapPut(db, key, [value |-> value,
                              expireAt |-> IF ttlSeconds # NoTtl THEN t + ttlSeconds
                                           ELSE NoExpiry]),
   out |-> NullData]
RedisDel(db, key, t) ==
  [store |-> MapRemove(db, key), out |-> IF RedisLive(db, key, t) THEN 1 ELSE 0]
RedisKeys(db, t) == [store |-> db, out |-> {k \in DOMAIN db : RedisLive(db, k, t)}]
RedisExists(db, key, t) ==
  [store |-> db, out |-> IF RedisLive(db, key, t) THEN 1 ELSE 0]

\* ---- ResilientRedisClient
NewClient ==
  [redis |-> "null", isConnected |-> FALSE, usesFallback |-> FALSE,
   reconnectAttempts |-> 0, retries |-> 0, fallback |-> EmptyMap]

\* switchToFallback()
SwitchToFallback(c) ==
  [c EXCEPT !.usesFallback = TRUE, !.isConnected = FALSE, !.redis = "null"]

\* await this.redis!.<command>(...) answers: there is a connection object and
\* the server is reachable; it throws otherwise.
RedisAnswers(c, srv) == c.redis = "client" /\ srv.up

\* The result of a client operation: the client, the server, what the
\* operation returns and which backing served it.
Served(c, srv, out, by) == [client |-> c, server |-> srv, out |-> out, by |-> by]
ByFallback(c, srv, r) ==
  Served([c EXCEPT !.fallback = r.store], srv, r.out, "fallback")

\* get(key)
ClientGet(c, srv, key, t) ==
  IF c.usesFallback \/ ~RedisAnswers(c, srv)
  THEN ByFallback(c, srv, InMemoryGet(c.fallback, key, t))
  ELSE Served(c, srv, RedisGet(srv.db, key, t).out, "redis")

\* Faulty variant: set without the write-through to the fallback
ClientSetRedisOnly(c, srv, key, value, ttlSeconds, t) ==
  IF c.usesFallback \/ ~RedisAnswers(c, srv)
  THEN ByFallback(c, srv, InMemorySet(c.fallback, key, value, ttlSeconds, t))
  ELSE Served(c, [srv EXCEPT !.db = RedisSet(srv.db, key, value, ttlSeconds, t).store],
              NullData, "redis")

\* set(key, value, ttlSeconds)
ClientSet(c, srv, key, value, ttlSeconds, t) ==
  IF c.usesFallback \/ ~RedisAnswers(c, srv)
  THEN ByFallback(c, srv, InMemorySet(c.fallback, key, value, ttlSeconds, t))
  ELSE Served([c EXCEPT !.fallback =
                  InMemorySet(c.fallback, key, value, ttlSeconds, t).store],
              [srv EXCEPT !.db = RedisSet(srv.db, key, value, ttlSeconds, t).store],
              NullData, "redis")

\* del(key)
ClientDel(c, srv, key, t) ==
  IF c.usesFallback \/ ~RedisAnswers(c, srv)
  THEN ByFallback(c, srv, InMemoryDel(c.fallback, key))
  ELSE Served([c EXCEPT !.fallback = InMemoryDel(c.fallback, key).store],
              [srv EXCEPT !.db = RedisDel(srv.db, key, t).store],
              RedisDel(srv.db, key, t).out, "redis")

\* keys(pattern), pattern being keyPrefix*
ClientKeys(c, srv, t) ==
  IF c.usesFallback \/ ~RedisAnswers(c, srv)
  THEN ByFallback(c, srv, InMemoryKeys(c.fallback))
  ELSE Served(c, srv, RedisKeys(srv.db, t).out, "redis")

\* exists(key)
ClientExists(c, srv, key, t) ==
  IF c.usesFallback \/ ~RedisAnswers(c, srv)
  THEN LET r == InMemoryExists(c.fallback, key, t)
       IN  ByFallback(c, srv, [r EXCEPT !.out = (r.out = 1)])
  ELSE Served(c, srv, RedisExists(srv.db, key, t).out = 1, "redis")

\* ---- WorkflowStateStore: each operation gives the client, the server and
\* what it returns
IdOrder == <<"w1", "w2">>
\* The ids of a key listing; KEYS and Map.keys() give them in an order of
\* their own, the model lists them in the order of IdOrder.
IdsOf(keys) == SelectSeq(IdOrder, LAMBDA id : GetKey(id) \in keys)

\* save(state)
StoreSave(c, srv, state, t) ==
  ClientSet(c, srv, GetKey(state.id), Stringify(state), StoreTtl, t)

\* get(workflowId)
StoreGet(c, srv, id, t) ==
  LET r == ClientGet(c, srv, GetKey(id), t)
  IN  [r EXCEPT !.out = IF r.out = NullData THEN NullSnapshot ELSE JsonParse(r.out)]

\* { ...current, ...updates, updatedAt: new Date().toISOString() }
Merged(current, updates, t) ==
  [k \in SnapshotFields |->
     IF k = "updatedAt" THEN t
     ELSE IF k \in DOMAIN updates THEN updates[k] ELSE current[k]]

\* update(workflowId, updates)
StoreUpdate(c, srv, id, updates, t) ==
  LET g == StoreGet(c, srv, id, t)
  IN  IF g.out = NullSnapshot THEN g
      ELSE LET updated == Merged(g.out, updates, t)
               w == StoreSave(g.client, g.server, updated, t)
           IN  [w EXCEPT !.out = updated]

\* addIteration(workflowId, iteration), iteration.number being n
StoreAddIteration(c, srv, id, n, t) ==
  LET g == StoreGet(c, srv, id, t)
  IN  IF g.out = NullSnapshot THEN g
      ELSE LET updated == Merged(g.out, [currentIteration |-> n,
                                         iterations |-> Append(g.out.iterations, n)], t)
               w == StoreSave(g.client, g.server, updated, t)
           IN  [w EXCEPT !.out = updated]

\* complete(workflowId, output, stopReason, finalScore)
StoreComplete(c, srv, id, reason, t) ==
  StoreUpdate(c, srv, id, [status |-> "completed", stopReason |-> reason,
                           completedAt |-> t], t)
\* fail(workflowId, errorMessage)
StoreFail(c, srv, id, t) ==
  StoreUpdate(c, srv, id, [status |-> "failed", completedAt |-> t], t)
\* cancel(workflowId, reason)
StoreCancel(c, srv, id, reason, t) ==
  StoreUpdate(c, srv, id, [status |-> "cancelled", stopReason |-> reason,
                           completedAt |-> t], t)

\* delete(workflowId)
StoreDelete(c, srv, id, t) ==
  LET r == ClientDel(c, srv, GetKey(id), t)
  IN  [r EXCEPT !.out = (r.out > 0)]

\* exists(workflowId)
StoreExists(c, srv, id, t) == ClientExists(c, srv, GetKey(id), t)

\* for (const id of ids) { const state = await this.get(id); ... }: the
\* states of ids that are there and have the status ("all": any)
RECURSIVE FetchStates(_, _, _, _, _, _)
FetchStates(c, srv, ids, status, t, acc) ==
  IF ids = <<>> THEN Served(c, srv, acc, "any")
  ELSE LET g == StoreGet(c, srv, Head(ids), t)
           keep == g.out # NullSnapshot /\ (status = "all" \/ g.out.status = status)
       IN  FetchStates(g.client, g.server, Tail(ids), status, t,
                       IF keep THEN Append(acc, g.out) ELSE acc)

\* listIds(status), status "all" being no status
StoreListIds(c, srv, status, t) ==
  LET k   == ClientKeys(c, srv, t)
      ids == IdsOf(k.out)
  IN  IF status = "all" THEN [k EXCEPT !.out = ids]
      ELSE LET f == FetchStates(k.client, k.server, ids, status, t, <<>>)
           IN  [f EXCEPT !.out = [i \in DOMAIN f.out |-> f.out[i].id]]

\* workflows.sort((a, b) => b.updatedAt - a.updatedAt)
RECURSIVE SortByUpdatedAt(_)
SortByUpdatedAt(ws) ==
  IF ws = <<>> THEN <<>>
  ELSE LET rest == SortByUpdatedAt(Tail(ws))
           newer == SelectSeq(rest, LAMBDA w : w.updatedAt > Head(ws).updatedAt)
           older == SelectSeq(rest, LAMBDA w : w.updatedAt <= Head(ws).updatedAt)
       IN  newer \o <<Head(ws)>> \o older

\* ids.slice(offset, offset + limit)
Slice(q, offset, limit) ==
  SubSeq(q, offset + 1, IF offset + limit < Len(q) THEN offset + limit ELSE Len(q))

\* list({ status, limit, offset })
StoreList(c, srv, status, limit, offset, t) ==
  LET l == StoreListIds(c, srv, status, t)
      f == FetchStates(l.client, l.server, Slice(l.out, offset, limit), "all", t, <<>>)
  IN  [f EXCEPT !.out = [workflows |-> SortByUpdatedAt(f.out), total |-> Len(l.out)]]

\* WorkflowStateStore.createInitialState(params)
InitialState(id, t) ==
  [id |-> id, status |-> "pending", currentIteration |-> 0, iterations |-> <<>>,
   updatedAt |-> t, stopReason |-> "undefined", completedAt |-> -1]

\* ---- State of the client and the store, and their operations
NoOp ==
  [op |-> "none", id |-> "none", out |-> NullData, by |-> "none",
   twinOut |-> NullData, saved |-> NullSnapshot, switched |-> FALSE]
NoHistory == [switched |-> FALSE, writesOnRedis |-> TRUE, written |-> EmptyMap]
Reachable == [up |-> TRUE, db |-> EmptyMap]

\* Two callers of the store on one workflow id, each between its `await`s
Writers == {1, 2}
NoWriter == [kind |-> "none", n |-> 0, at |-> "idle", current |-> NullSnapshot]
NoRace == [saved |-> FALSE, overlapped |-> FALSE, w |-> [i \in Writers |-> NoWriter]]
RaceIdle == race = NoRace

\* Counts over one execute: requests sent to the provider, runner calls
\* issued, and backoff waits of the runner call in progress
NoMeter == [remote |-> 0, runs |-> 0, waits |-> 0]
MeterIdle == meter = NoMeter

\* list_workflows has not been called
NoListing == [pc |-> "idle", table |-> <<>>, pages |-> <<>>,
              req |-> [status |-> "all", limit |-> 0, sortBy |-> "createdAt",
                       sortOrder |-> "desc", available |-> FALSE]]
ListingIdle == lst = NoListing

StoreIdle ==
  /\ now = 0 /\ server = Reachable /\ rclient = NewClient /\ twin = NewClient
  /\ slast = NoOp /\ shist = NoHistory

\* initializeRedis() is about to run: a client not yet connected
ClientInit ==
  /\ now = 0 /\ server \in {Reachable, [Reachable EXCEPT !.up = FALSE]}
  /\ rclient = NewClient /\ twin = NewClient
  /\ slast = [NoOp EXCEPT !.op = "new"] /\ shist = NoHistory

\* initializeRedis() has connected the client
Connected ==
  [NewClient EXCEPT !.redis = "client", !.isConnected = TRUE]
ConnectedInit ==
  /\ now = 0 /\ server = Reachable /\ rclient = Connected /\ twin = NewClient
  /\ slast = [NoOp EXCEPT !.op = "new"] /\ shist = NoHistory

\* the clock advances
Tick ==
  /\ slast.op # "none" /\ now < MaxClock
  /\ now' = now + 1
  /\ slast' = [NoOp EXCEPT !.op = "tick", !.switched = shist.switched]
  /\ UNCHANGED <<server, rclient, twin, shist>>

\* the Redis server stops answering / answers again
ServerFails ==
  /\ slast.op # "none" /\ server.up
  /\ server' = [server EXCEPT !.up = FALSE]
  /\ UNCHANGED <<now, rclient, twin, slast, shist>>
ServerRecovers ==
  /\ slast.op # "none" /\ ~server.up
  /\ server' = [server EXCEPT !.up = TRUE]
  /\ UNCHANGED <<now, rclient, twin, slast, shist>>

\* connect(): new Redis(...), setupEventHandlers(), then ping() resolves
\* (pingOk) or rejects; it rejects when the server does not answer.
Connect(pingOk) ==
  /\ slast.op # "none"
  /\ pingOk => server.up
  /\ LET c == [rclient EXCEPT !.redis = "client", !.retries = 0]
     IN  IF pingOk
         THEN /\ rclient' = [c EXCEPT !.isConnected = TRUE, !.usesFallback = FALSE,
                                      !.reconnectAttempts = 0]
              /\ shist' = shist
         ELSE /\ rclient' = SwitchToFallback(c)
              /\ shist' = [shist EXCEPT !.switched = TRUE]
  /\ UNCHANGED <<now, server, twin, slast>>

\* the "ready" event of the connection
Ready ==
  /\ rclient.redis = "client" /\ server.up /\ ~rclient.isConnected
  /\ rclient' = [rclient EXCEPT !.isConnected = TRUE, !.usesFallback = FALSE,
                                !.reconnectAttempts = 0, !.retries = 0]
  /\ UNCHANGED <<now, server, twin, slast, shist>>

\* the "close" event of the connection, then retryStrategy(times): beyond
\* maxReconnectAttempts the client switches to the fallback, otherwise the
\* "reconnecting" event follows.
ConnectionLost ==
  /\ rclient.redis = "client" /\ ~server.up
  /\ LET times == rclient.retries + 1
         c == [rclient EXCEPT !.isConnected = FALSE, !.retries = times]
     IN  IF times > MaxReconnectAttempts
         THEN /\ rclient' = SwitchToFallback(c)
              /\ shist' = [shist EXCEPT !.switched = TRUE]
         ELSE /\ rclient' = [c EXCEPT !.reconnectAttempts = c.reconnectAttempts + 1]
              /\ shist' = shist
  /\ UNCHANGED <<now, server, twin, slast>>

\* The operations of the client, on one key
ClientValues == { Stringify(InitialState("w1", 0)),
                  Stringify([InitialState("w1", 0) EXCEPT !.status = "running"]) }
Done(op, id, r) ==
  [op |-> op, id |-> id, out |-> r.out, by |-> r.by, twinOut |-> NullData,
   saved |-> NullSnapshot, switched |-> shist.switched]

ClientGetCall(key) ==
  /\ slast.op # "none"
  /\ LET r == ClientGet(rclient, server, key, now)
     IN  /\ rclient' = r.client /\ server' = r.server
         /\ slast' = Done("get", IdOfKey(key), r)
  /\ UNCHANGED <<now, twin, shist>>

ClientSetCall(key, value, ttlSeconds) ==
  /\ slast.op # "none"
  /\ LET r == ClientSet(rclient, server, key, value, ttlSeconds, now)
     IN  /\ rclient' = r.client /\ server' = r.server
         /\ slast' = Done("set", IdOfKey(key), r)
         /\ shist' = [shist EXCEPT
               !.writesOnRedis = @ /\ r.by = "redis",
               !.written = MapPut(@, key, [value |-> value,
                              expireAt |-> IF ttlSeconds # NoTtl THEN now + ttlSeconds
                                           ELSE NoExpiry])]
  /\ UNCHANGED <<now, twin>>

ClientDelCall(key) ==
  /\ slast.op # "none"
  /\ LET r == ClientDel(rclient, server, key, now)
     IN  /\ rclient' = r.client /\ server' = r.server
         /\ slast' = Done("del", IdOfKey(key), r)
         /\ shist' = [shist EXCEPT !.writesOnRedis = @ /\ r.by = "redis",
                                   !.written = MapRemove(@, key)]
  /\ UNCHANGED <<now, twin>>

ClientKeysCall ==
  /\ slast.op # "none"
  /\ LET r == ClientKeys(rclient, server, now)
     IN  /\ rclient' = r.client /\ server' = r.server
         /\ slast' = Done("keys", "none", r)
  /\ UNCHANGED <<now, twin, shist>>

ClientExistsCall(key) ==
  /\ slast.op # "none"
  /\ LET r == ClientExists(rclient, server, key, now)
     IN  /\ rclient' = r.client /\ server' = r.server
         /\ slast' = Done("exists", IdOfKey(key), r)
  /\ UNCHANGED <<now, twin, shist>>

\* ---- The operations of the store, each applied to the store whose client
\* is connected to Redis (rclient) and to a store whose client has switched
\* to the fallback (twin)
Fallen == SwitchToFallback(NewClient)
StoreInit ==
  /\ now = 0 /\ server = Reachable /\ rclient = Connected /\ twin = Fallen
  /\ slast = [NoOp EXCEPT !.op = "new"] /\ shist = NoHistory

StoreStep(op, id, r, w, saved) ==
  /\ slast.op # "none"
  /\ rclient' = r.client /\ server' = r.server /\ twin' = w.client
  /\ slast' = [op |-> op, id |-> id, out |-> r.out, by |-> r.by,
               twinOut |-> w.out, saved |-> saved, switched |-> shist.switched]
  /\ UNCHANGED <<now, shist>>

\* The snapshots handed to save: createInitialState as the worker and the
\* tools build it, pending or running, with the iterations recorded so far
SaveInputs(id, t) ==
  { [InitialState(id, t) EXCEPT !.status = st, !.currentIteration = n,
                                !.iterations = [i \in 1..n |-> i]] :
      st \in {"pending", "running"}, n \in 0..MaxStoreIterations }

Save(state) ==
  StoreStep("save", state.id, StoreSave(rclient, server, state, now),
            StoreSave(twin, server, state, now), state)

\* get(workflowId); saved is the snapshot of a save of this id that came
\* right before
Get(id) ==
  StoreStep("get", id, StoreGet(rclient, server, id, now),
            StoreGet(twin, server, id, now),
            IF slast.op = "save" /\ slast.id = id THEN slast.saved ELSE NullSnapshot)

Complete(id) ==
  StoreStep("update", id, StoreComplete(rclient, server, id, "threshold_reached", now),
            StoreComplete(twin, server, id, "threshold_reached", now), NullSnapshot)

\* addIteration(workflowId, iteration); saved is the snapshot it found
AddIteration(id) ==
  /\ Len(StoreGet(rclient, server, id, now).out.iterations) < MaxStoreIterations
  /\ Len(StoreGet(twin, server, id, now).out.iterations) < MaxStoreIterations
  /\ StoreStep("addIteration", id, StoreAddIteration(rclient, server, id, 1, now),
               StoreAddIteration(twin, server, id, 1, now),
               StoreGet(rclient, server, id, now).out)

Delete(id) ==
  StoreStep("delete", id, StoreDelete(rclient, server, id, now),
            StoreDelete(twin, server, id, now), NullSnapshot)

Exists(id) ==
  StoreStep("exists", id, StoreExists(rclient, server, id, now),
            StoreExists(twin, server, id, now), NullSnapshot)

ListIds(status) ==
  StoreStep("listIds", "none", StoreListIds(rclient, server, status, now),
            StoreListIds(twin, server, status, now), NullSnapshot)

List(status, limit, offset) ==
  StoreStep("list", "none", StoreList(rclient, server, status, limit, offset, now),
            StoreList(twin, server, status, limit, offset, now), NullSnapshot)

---------------------------------------------------------------------------
(* The workflow worker (processWorkflowJob), the queue job and the         *)
(* cancel_workflow tool                                                    *)

MaxCancelCalls == 2      \* calls of cancel_workflow in one behaviour
DefaultJobAttempts == 3  \* DEFAULT_JOB_OPTIONS.attempts
WorkflowId == "w1"
JobData == { [maxIterations |-> 2, scoreThreshold |-> 900] }
\* What the runners of the execution in the worker do: the evaluator passes
\* the candidate or scores it low, a call fails with the rate-limit error
WorkerEvalTexts ==
  { RenderPayload("p1", "s900", <<"x">>, FALSE),
    <<"x", " ">> \o RenderPayload("p0", "s50", <<"x">>, TRUE) \o <<" ", "x">> }
WorkerCauses == {"LLM_RATE_LIMIT_ERROR"}

NoJobResult ==
  [success |-> FALSE, workflowId |-> "none", output |-> 0, finalScore |-> 0,
   iterations |-> 0, reason |-> "none"]
NoJob ==
  [state |-> "none", cancelled |-> FALSE, attemptsMade |-> 0,
   data |-> [maxIterations |-> 0, scoreThreshold |-> 0],
   returnvalue |-> NoJobResult]
NoPg == [rows |-> <<>>, persist |-> "none"]
NoSides == [db |-> EmptyMap, job |-> NoJob, status |-> "null"]
NoToolOutput ==
  [kind |-> "none", status |-> "none", message |-> "none", previousStatus |-> "none"]
NotAccepted == [done |-> FALSE, iteration |-> 0, recorded |-> 0]
NoTool ==
  [n |-> 0, out |-> NoToolOutput, before |-> NoSides, after |-> NoSides,
   accepted |-> NotAccepted]
Threw(message) == [NoToolOutput EXCEPT !.kind = "threw", !.message = message]
Returned(message, previousStatus) ==
  [kind |-> "returned", status |-> "cancelled", message |-> message,
   previousStatus |-> previousStatus]

WorkerIdle == job = NoJob /\ wpc = "idle" /\ tool = NoTool /\ pg = NoPg

\* WorkflowQueue.cancelJob(jobId): the job and what it returns
CancelJob(j) ==
  CASE j.state \in {"none", "removed"}    -> [job |-> j, out |-> FALSE]
    [] j.state \in {"waiting", "delayed"} -> [job |-> [j EXCEPT !.state = "removed"],
                                              out |-> TRUE]
    [] j.state = "active"                 -> [job |-> [j EXCEPT !.cancelled = TRUE],
                                              out |-> TRUE]
    [] OTHER                              -> [job |-> j, out |-> FALSE]

\* shouldCancelJob(job)
ShouldCancelJob(j) == j.cancelled

\* Faulty variant: a failed execution taken for a cancellable one
CancelDecisionFailedCancellable(status) ==
  CASE status = "completed" -> "throw"
    [] status = "cancelled" -> "already"
    [] OTHER                -> "cancel"

\* cancel_workflow on a snapshot of this status: it throws, returns the
\* state as already cancelled, or cancels
CancelDecision(status) ==
  CASE status = "completed" -> "throw"
    [] status = "failed"    -> "throw"
    [] status = "cancelled" -> "already"
    [] OTHER                -> "cancel"

\* cancelWorkflowTool.execute({ workflowId }): the client, the server and the
\* job it leaves, and what it returns or throws
CancelWorkflowExecute(c, srv, j, t) ==
  LET g == StoreGet(c, srv, WorkflowId, t)
      same(out) == [client |-> g.client, server |-> g.server, job |-> j, out |-> out]
  IN  IF g.out # NullSnapshot
      THEN CASE CancelDecision(g.out.status) = "throw" ->
                  same(Threw(g.out.status))
             [] CancelDecision(g.out.status) = "already" ->
                  same(Returned("Workflow was already cancelled", "none"))
             [] OTHER ->
                  LET w == StoreCancel(g.client, g.server, WorkflowId,
                                       "User requested cancellation", t)
                  IN  [client |-> w.client, server |-> w.server,
                       job |-> CancelJob(j).job,
                       out |-> Returned("none", g.out.status)]
      ELSE CASE j.state \in {"none", "removed"} ->
                  same(Threw("WORKFLOW_NOT_FOUND"))
             [] j.state \in {"completed", "failed"} ->
                  same(Threw(j.state))
             [] CancelJob(j).out ->
                  [same(Returned("none", IF j.state = "waiting"
                                         THEN "pending" ELSE "running"))
                     EXCEPT !.job = CancelJob(j).job]
             [] OTHER ->
                  same(Threw(j.state))

\* RalphOrchestrator.enqueue(params): the job waits in the queue
Enqueue(data) ==
  /\ job.state = "none"
  /\ job' = [NoJob EXCEPT !.state = "waiting", !.data = data]
  /\ UNCHANGED <<wpc, tool, pg, orchVars, storeVars>>

\* The worker takes the job: processWorkflowJob up to the call of execute.
\* The running snapshot is saved, job.updateProgress replaces the progress.
WorkerStart ==
  /\ job.state \in {"waiting", "delayed"} /\ wpc \in {"idle", "rethrown"}
  /\ LET w == StoreSave(rclient, server,
                        [InitialState(WorkflowId, now) EXCEPT !.status = "running"], now)
     IN  rclient' = w.client /\ server' = w.server
  /\ job' = [job EXCEPT !.state = "active", !.cancelled = FALSE,
                        !.attemptsMade = @ + 1]
  /\ wpc' = "started"
  /\ UNCHANGED <<tool, pg, orchVars, now, twin, slast, shist>>

\* createOrchestrator(...) and orchestrator.execute(data), up to its first
\* await
WorkerExecute ==
  /\ wpc = "started"
  /\ wpc' = "executing"
  /\ conditions' = DefaultConditions
  /\ params' = job.data
  /\ iterations' = <<>> /\ currentOutput' = 0 /\ lastFeedback' = NullFeedback
  /\ stopReason' = "max_iterations"
  /\ thrown' = NoError
  /\ EnterIteration(1, <<>>, 0, NullFeedback, "max_iterations", params')
  /\ UNCHANGED <<errorLog, job, tool, pg, storeVars>>

\* The rows persistToPostgres writes for a result, in the order of its
\* writes: repository.save, repository.addIteration for each entry of the
\* iteration history, repository.addAuditLog
PersistWrites(r) ==
  <<[table |-> "workflows", workflowId |-> WorkflowId,
     status |-> IF r.success THEN "completed" ELSE "failed",
     number |-> r.iterations]>>
  \o [i \in 1..Len(r.iterationHistory) |->
        [table |-> "iterations", workflowId |-> WorkflowId, status |-> "none",
         number |-> r.iterationHistory[i].number]]
  \o <<[table |-> "audit_logs", workflowId |-> WorkflowId,
        status |-> IF r.success THEN "workflow_completed" ELSE "workflow_failed",
        number |-> r.iterations]>>

\* Faulty variant: the catch of persistToPostgres throws the error again
PersistCaughtRethrown(rows) == [rows |-> rows, persist |-> "failed", threw |-> TRUE]

\* The catch of persistToPostgres: the error is logged and not thrown
PersistCaught(rows) == [rows |-> rows, persist |-> "failed", threw |-> FALSE]

\* persistToPostgres(data, result, durationMs).  available is what
\* postgresClient.isAvailable() answers; failAt = 0 when every write
\* succeeds, else the position of the write that throws: the rows written
\* before it stay.
PersistToPostgres(rows, r, available, failAt) ==
  IF ~available THEN [rows |-> rows, persist |-> "skipped", threw |-> FALSE]
  ELSE IF failAt = 0
       THEN [rows |-> rows \o PersistWrites(r), persist |-> "written",
             threw |-> FALSE]
       ELSE PersistCaught(rows \o SubSeq(PersistWrites(r), 1, failAt - 1))

\* The WorkflowJobResult of processWorkflowJob (durationMs left out)
WorkflowJobResultOf(r) ==
  [success |-> r.success, workflowId |-> WorkflowId, output |-> r.output,
   finalScore |-> r.finalScore, iterations |-> r.iterations,
   reason |-> IF r.reason = "undefined" THEN "unknown" ELSE r.reason]

\* What BullMQ does with the job when processWorkflowJob throws: another
\* attempt after the backoff delay, or failed after the last attempt
JobAfterThrow(j) ==
  [j EXCEPT !.state = IF j.attemptsMade < DefaultJobAttempts
                      THEN "delayed" ELSE "failed"]

\* execute has returned: stateStore.complete, persistToPostgres, and the job
\* is completed with the job result.  Were persistToPostgres to throw, the
\* catch of processWorkflowJob would run as for a failed execution.
WorkerComplete(available, failAt) ==
  /\ wpc = "executing" /\ pc = "done"
  /\ failAt <= Len(PersistWrites(result))
  /\ LET w == StoreComplete(rclient, server, WorkflowId, result.reason, now)
         p == PersistToPostgres(pg.rows, result, available, failAt)
         f == StoreFail(w.client, w.server, WorkflowId, now)
     IN  /\ pg' = [rows |-> p.rows, persist |-> p.persist]
         /\ IF p.threw
            THEN /\ rclient' = f.client /\ server' = f.server
                 /\ job' = JobAfterThrow(job)
                 /\ wpc' = "rethrown"
            ELSE /\ rclient' = w.client /\ server' = w.server
                 /\ job' = [job EXCEPT !.state = "completed",
                                       !.returnvalue = WorkflowJobResultOf(result)]
                 /\ wpc' = "returned"
  /\ UNCHANGED <<tool, orchVars, now, twin, slast, shist>>

\* execute has thrown: stateStore.fail and the error is thrown again; BullMQ
\* delays the job for another attempt or fails it
WorkerFail ==
  /\ wpc = "executing" /\ pc = "failed"
  /\ LET w == StoreFail(rclient, server, WorkflowId, now)
     IN  rclient' = w.client /\ server' = w.server
  /\ job' = JobAfterThrow(job)
  /\ wpc' = "rethrown"
  /\ UNCHANGED <<tool, pg, orchVars, now, twin, slast, shist>>

\* A runner call of the execution in the worker resolves or rejects
WorkerStep(A) ==
  /\ wpc = "executing"
  /\ A
  /\ UNCHANGED <<workerVars, storeVars>>

\* The status in the snapshot of the workflow, "null" when there is none
SnapshotStatus(c, srv) == StoreGet(c, srv, WorkflowId, now).out.status

\* cancel_workflow is called for the workflow.  tool keeps what the call
\* found and left, and for a cancellation of the running execution the
\* iteration the loop was in and the iterations recorded by then.
CancelWorkflow ==
  /\ job.state # "none" /\ tool.n < MaxCancelCalls
  /\ LET r == CancelWorkflowExecute(rclient, server, job, now)
         running == SnapshotStatus(rclient, server) = "running"
                    /\ r.out.kind = "returned"
     IN  /\ rclient' = r.client /\ server' = r.server /\ job' = r.job
         /\ tool' = [n |-> tool.n + 1, out |-> r.out,
                     before |-> [db |-> server.db, job |-> job,
                                 status |-> SnapshotStatus(rclient, server)],
                     after |-> [db |-> r.server.db, job |-> r.job,
                                status |-> SnapshotStatus(r.client, r.server)],
                     accepted |->
                       IF running /\ ~tool.accepted.done
                       THEN [done |-> TRUE,
                             iteration |-> IF wpc = "executing" THEN iteration ELSE 0,
                             recorded |-> IF wpc = "executing" THEN Len(iterations)
                                          ELSE 0]
                       ELSE tool.accepted]
  /\ UNCHANGED <<wpc, pg, orchVars, now, twin, slast, shist>>

---------------------------------------------------------------------------
(* run_workflow: the rate limiter (RateLimiter with its                    *)
(* InMemoryRateLimitStore), the submissions and the worker pool            *)

MaxLimiterClock == 3     \* Date.now() of the limiter stops here
MaxChecks == 6           \* calls of run_workflow in one behaviour
WorkerConcurrency == 2   \* config.concurrency ?? 2
\* The RateLimitConfig of the limiter: getWorkflowRateLimiter() allows 10
\* requests per window of 60 s, the limiter here 3 per window of 2 ticks
WorkflowRateLimit == [maxRequests |-> 3, windowMs |-> 2]

NoEntry == [set |-> FALSE, count |-> 0, windowStart |-> 0]
NoRateLimitResult == [allowed |-> FALSE, remaining |-> 0, current |-> 0, path |-> "none"]
NoLimiter ==
  [now |-> 0, zset |-> <<>>, entry |-> NoEntry, removals |-> <<>>,
   admitted |-> <<>>, checks |-> 0, paths |-> {}, last |-> NoRateLimitResult,
   op |-> "none", before |-> [zset |-> <<>>, entry |-> NoEntry]]
NoExecs == [queued |-> 0, inWorker |-> 0, inTool |-> 0, ended |-> 0]
SubmitIdle == rl = NoLimiter /\ execs = NoExecs

AtLeastZero(n) == IF n < 0 THEN 0 ELSE n

\* InMemoryRateLimitStore.check(key, maxRequests, windowSeconds) at time t:
\* the entry of the key it leaves and the result.  cleanup() deletes only
\* entries whose window is over, which check replaces all the same.
InMemoryCheck(entry, t, cfg) ==
  IF ~entry.set \/ t - entry.windowStart >= cfg.windowMs
  THEN [entry |-> [set |-> TRUE, count |-> 1, windowStart |-> t],
        out |-> [allowed |-> TRUE, remaining |-> cfg.maxRequests - 1, current |-> 1,
                 path |-> "fallback"]]
  ELSE IF entry.count >= cfg.maxRequests
       THEN [entry |-> entry,
             out |-> [allowed |-> FALSE, remaining |-> 0, current |-> entry.count,
                      path |-> "fallback"]]
       ELSE [entry |-> [entry EXCEPT !.count = @ + 1],
             out |-> [allowed |-> TRUE,
                      remaining |-> AtLeastZero(cfg.maxRequests - entry.count - 1),
                      current |-> entry.count + 1, path |-> "fallback"]]

\* RateLimiter.check on Redis at time t, the transaction: zremrangebyscore
\* (key, 0, t - windowMs), zcard, zadd(key, t, member).  zset holds the scores
\* of the members, in the order they were added.
RedisMulti(zset, t, cfg) ==
  LET kept == SelectSeq(zset, LAMBDA score : score > t - cfg.windowMs)
      currentCount == Len(kept)
      allowed == currentCount < cfg.maxRequests
  IN  [zset |-> Append(kept, t),
       out |-> [allowed |-> allowed,
                remaining |-> IF allowed
                              THEN AtLeastZero(cfg.maxRequests - currentCount - 1)
                              ELSE 0,
                current |-> currentCount + (IF allowed THEN 1 ELSE 0),
                path |-> "redis"]]

\* RateLimiter.check, request denied: zremrangebyscore(key, now, now + 1)
RemoveDenied(zset, t) == SelectSeq(zset, LAMBDA score : score < t \/ score > t + 1)

RemoveAt(s, i) == SubSeq(s, 1, i - 1) \o SubSeq(s, i + 1, Len(s))

\* The executions after run_workflow has passed the rate limit: async mode
\* enqueues the job, sync mode calls orchestrator.execute in the tool
Submitted(e, mode) ==
  IF mode = "async" THEN [e EXCEPT !.queued = @ + 1]
  ELSE [e EXCEPT !.inTool = @ + 1]

\* The clock of the limiter advances.  Of the admissions, those of the
\* window that ends at the new time are kept.
LimiterTick ==
  /\ rl.now < MaxLimiterClock
  /\ rl' = [rl EXCEPT !.now = @ + 1, !.op = "tick",
                      !.admitted = SelectSeq(@, LAMBDA t :
                                     t > rl.now + 1 - WorkflowRateLimit.windowMs)]
  /\ UNCHANGED execs

\* run_workflow is called: rateLimiter.check("default-client"), through
\* Redis or, without a raw client or when the transaction fails, through the
\* fallback store; RateLimitExceededError when the request is not allowed,
\* else the execution is enqueued or executed.  A request denied on Redis
\* has its removal still to do.
RunWorkflow(mode, redis) ==
  /\ rl.checks < MaxChecks
  /\ LET m == RedisMulti(rl.zset, rl.now, WorkflowRateLimit)
         f == InMemoryCheck(rl.entry, rl.now, WorkflowRateLimit)
         out == IF redis THEN m.out ELSE f.out
     IN  /\ rl' = [rl EXCEPT
                     !.zset = IF redis THEN m.zset ELSE @,
                     !.entry = IF redis THEN @ ELSE f.entry,
                     !.removals = IF redis /\ ~out.allowed THEN Append(@, rl.now) ELSE @,
                     !.admitted = IF out.allowed THEN Append(@, rl.now) ELSE @,
                     !.checks = @ + 1,
                     !.paths = @ \cup {out.path},
                     !.last = out, !.op = "check"]
         /\ execs' = IF out.allowed THEN Submitted(execs, mode) ELSE execs

\* The check of a denied request removes the entry it added
RemoveDeniedEntry(i) ==
  /\ i \in DOMAIN rl.removals
  /\ rl' = [rl EXCEPT !.zset = RemoveDenied(@, rl.removals[i]),
                      !.removals = RemoveAt(@, i), !.op = "remove"]
  /\ UNCHANGED execs

\* RateLimiter.peek on Redis at time t: zremrangebyscore(key, 0,
\* t - windowMs), zcard
PeekRedis(zset, t, cfg) ==
  LET kept == SelectSeq(zset, LAMBDA score : score > t - cfg.windowMs)
      currentCount == Len(kept)
  IN  [zset |-> kept,
       out |-> [allowed |-> currentCount < cfg.maxRequests,
                remaining |-> AtLeastZero(cfg.maxRequests - currentCount),
                current |-> currentCount, path |-> "redis"]]

\* RateLimiter.peek without a raw client: fallback.check, then
\* fallback.reset(clientId), which deletes the entry of the client
PeekFallback(entry, t, cfg) ==
  [entry |-> NoEntry, out |-> InMemoryCheck(entry, t, cfg).out]

\* peek("default-client") is called
Peek(redis) ==
  /\ rl.checks < MaxChecks
  /\ LET p == PeekRedis(rl.zset, rl.now, WorkflowRateLimit)
         f == PeekFallback(rl.entry, rl.now, WorkflowRateLimit)
     IN  rl' = [rl EXCEPT
                  !.zset = IF redis THEN p.zset ELSE @,
                  !.entry = IF redis THEN @ ELSE f.entry,
                  !.checks = @ + 1,
                  !.last = IF redis THEN p.out ELSE f.out,
                  !.op = "peek",
                  !.before = [zset |-> rl.zset, entry |-> rl.entry]]
  /\ UNCHANGED execs

\* The worker takes a waiting job while it processes fewer jobs than its
\* concurrency: processWorkflowJob calls orchestrator.execute
WorkerTakes ==
  /\ execs.queued > 0 /\ execs.inWorker < WorkerConcurrency
  /\ execs' = [execs EXCEPT !.queued = @ - 1, !.inWorker = @ + 1]
  /\ UNCHANGED rl

\* orchestrator.execute returns or throws, in a worker or in the tool
LoopEndsInWorker ==
  /\ execs.inWorker > 0
  /\ execs' = [execs EXCEPT !.inWorker = @ - 1, !.ended = @ + 1]
  /\ UNCHANGED rl
LoopEndsInTool ==
  /\ execs.inTool > 0
  /\ execs' = [execs EXCEPT !.inTool = @ - 1, !.ended = @ + 1]
  /\ UNCHANGED rl

---------------------------------------------------------------------------
(* Specifications                                                          *)

Init == OrchInit /\ StopIdle /\ ParseIdle /\ RetryIdle /\ StoreIdle /\ WorkerIdle /\ SubmitIdle
    /\ DelayIdle
    /\ RaceIdle
    /\ MeterIdle
    /\ ListingIdle

OrchFrame == UNCHANGED <<stopVars, parseVars, retryVars, storeVars, workerVars, submitVars,
    delayVars,
    raceVars,
    meterVars,
    listVars>>

Next ==
  \/ \E name \in ConditionNames : AddCondition(name) /\ OrchFrame
  \/ \E name \in ConditionNames : RemoveCondition(name) /\ OrchFrame
  \/ \E m \in 0..MaxIter, t \in ScoreThresholds : Execute(m, t) /\ OrchFrame
  \/ GeneratorReturns /\ OrchFrame
  \/ \E c \in Causes : GeneratorFails(c) /\ OrchFrame
  \/ \E text \in EvalTexts : DiscriminatorReturns(text) /\ OrchFrame
  \/ \E c \in Causes : DiscriminatorFails(c) /\ OrchFrame

\* RalphOrchestrator: configuration of the stop conditions, then one execute
Spec == Init /\ [][Next]_vars

\* The stop conditions on their own
StopFrame == UNCHANGED <<orchVars, parseVars, retryVars, storeVars, workerVars, submitVars,
    delayVars,
    raceVars,
    meterVars,
    listVars>>
InitStop == StopInit /\ OrchIdle /\ ParseIdle /\ RetryIdle /\ StoreIdle /\ WorkerIdle /\ SubmitIdle
    /\ DelayIdle
    /\ RaceIdle
    /\ MeterIdle
    /\ ListingIdle
NextStop ==
  \/ \E name \in ConditionNames : EvaluateCondition(name) /\ StopFrame
  \/ EvaluateComposite /\ StopFrame
SpecStop == InitStop /\ [][NextStop]_vars

\* The stop conditions on their own, and within execute
InitStopping == Init \/ InitStop
NextStopping == Next \/ NextStop
SpecStopping == InitStopping /\ [][NextStopping]_vars

\* parseResponse on its own
ParseFrame == UNCHANGED <<orchVars, stopVars, retryVars, storeVars, workerVars, submitVars,
    delayVars,
    raceVars,
    meterVars,
    listVars>>
InitParse == ParseInit /\ OrchIdle /\ StopIdle /\ RetryIdle /\ StoreIdle /\ WorkerIdle /\ SubmitIdle
    /\ DelayIdle
    /\ RaceIdle
    /\ MeterIdle
    /\ ListingIdle
NextParse == Interpret /\ ParseFrame
SpecParse == InitParse /\ [][NextParse]_vars

\* parseResponse on its own, and within execute
InitInterpreter == Init \/ InitParse
NextInterpreter == Next \/ NextParse
SpecInterpreter == InitInterpreter /\ [][NextInterpreter]_vars

\* retry on its own
RetryFrame == UNCHANGED <<orchVars, stopVars, parseVars, storeVars, workerVars, submitVars,
    delayVars,
    raceVars,
    meterVars,
    listVars>>
InitRetry == RetryInit /\ OrchIdle /\ StopIdle /\ ParseIdle /\ StoreIdle /\ WorkerIdle /\ SubmitIdle
    /\ DelayIdle
    /\ RaceIdle
    /\ MeterIdle
    /\ ListingIdle
NextRetry ==
  \/ RetryStart /\ RetryFrame
  \/ FnResolves /\ RetryFrame
  \/ \E random \in RandomDraws : FnRejects(random) /\ RetryFrame
  \/ SleepDone /\ RetryFrame
SpecRetry == InitRetry /\ [][NextRetry]_vars

\* ResilientRedisClient: connection events, and operations on one key
ClientFrame == UNCHANGED <<orchVars, stopVars, parseVars, retryVars, workerVars, submitVars,
    delayVars,
    raceVars,
    meterVars,
    listVars>>
InitClient == ClientInit /\ OrchIdle /\ StopIdle /\ ParseIdle /\ RetryIdle /\ WorkerIdle /\ SubmitIdle
    /\ DelayIdle
    /\ RaceIdle
    /\ MeterIdle
    /\ ListingIdle
NextClient ==
  \/ Tick /\ ClientFrame
  \/ ServerFails /\ ClientFrame
  \/ ServerRecovers /\ ClientFrame
  \/ \E pingOk \in BOOLEAN : Connect(pingOk) /\ ClientFrame
  \/ Ready /\ ClientFrame
  \/ ConnectionLost /\ ClientFrame
  \/ ClientGetCall(GetKey("w1")) /\ ClientFrame
  \/ \E value \in ClientValues : ClientSetCall(GetKey("w1"), value, StoreTtl) /\ ClientFrame
  \/ ClientDelCall(GetKey("w1")) /\ ClientFrame
  \/ ClientKeysCall /\ ClientFrame
  \/ ClientExistsCall(GetKey("w1")) /\ ClientFrame
SpecClient == InitClient /\ [][NextClient]_vars

\* ResilientRedisClient once connected: operations on keys while the server
\* may stop answering
InitWrites == ConnectedInit /\ OrchIdle /\ StopIdle /\ ParseIdle /\ RetryIdle /\ WorkerIdle /\ SubmitIdle
    /\ DelayIdle
    /\ RaceIdle
    /\ MeterIdle
    /\ ListingIdle
NextWrites ==
  \/ Tick /\ ClientFrame
  \/ ServerFails /\ ClientFrame
  \/ ServerRecovers /\ ClientFrame
  \/ \E key \in StoreKeys : ClientGetCall(key) /\ ClientFrame
  \/ \E key \in StoreKeys, value \in ClientValues :
        ClientSetCall(key, value, StoreTtl) /\ ClientFrame
  \/ \E key \in StoreKeys : ClientDelCall(key) /\ ClientFrame
  \/ ClientKeysCall /\ ClientFrame
  \/ \E key \in StoreKeys : ClientExistsCall(key) /\ ClientFrame
SpecWrites == InitWrites /\ [][NextWrites]_vars

\* The store on Redis beside the store on the fallback, the clock advancing
InitStore == StoreInit /\ OrchIdle /\ StopIdle /\ ParseIdle /\ RetryIdle /\ WorkerIdle /\ SubmitIdle
    /\ DelayIdle
    /\ RaceIdle
    /\ MeterIdle
    /\ ListingIdle
NextStore ==
  \/ Tick /\ ClientFrame
  \/ \E id \in StoreIds : \E state \in SaveInputs(id, now) : Save(state) /\ ClientFrame
  \/ \E id \in StoreIds : Get(id) /\ ClientFrame
  \/ \E id \in StoreIds : Complete(id) /\ ClientFrame
  \/ \E id \in StoreIds : AddIteration(id) /\ ClientFrame
  \/ \E id \in StoreIds : Delete(id) /\ ClientFrame
  \/ \E id \in StoreIds : Exists(id) /\ ClientFrame
  \/ \E status \in {"all", "running"} : ListIds(status) /\ ClientFrame
  \/ \E status \in {"all", "running"}, limit \in 1..2, offset \in 0..1 :
        List(status, limit, offset) /\ ClientFrame
SpecStore == InitStore /\ [][NextStore]_vars

\* A workflow is enqueued, the worker runs it, cancel_workflow is called
WorkerFrame == UNCHANGED <<stopVars, parseVars, retryVars, submitVars,
    delayVars,
    raceVars,
    meterVars,
    listVars>>
InitWorker ==
  ConnectedInit /\ OrchIdle /\ StopIdle /\ ParseIdle /\ RetryIdle /\ WorkerIdle
    /\ SubmitIdle
    /\ DelayIdle
    /\ RaceIdle
    /\ MeterIdle
    /\ ListingIdle
NextWorker ==
  \/ \E data \in JobData : Enqueue(data) /\ WorkerFrame
  \/ WorkerStart /\ WorkerFrame
  \/ WorkerExecute /\ WorkerFrame
  \/ WorkerStep(GeneratorReturns) /\ WorkerFrame
  \/ \E c \in WorkerCauses : WorkerStep(GeneratorFails(c)) /\ WorkerFrame
  \/ \E text \in WorkerEvalTexts : WorkerStep(DiscriminatorReturns(text)) /\ WorkerFrame
  \/ \E c \in WorkerCauses : WorkerStep(DiscriminatorFails(c)) /\ WorkerFrame
  \/ \E available \in BOOLEAN, failAt \in 0..(MaxIter + 2) :
        WorkerComplete(available, failAt) /\ WorkerFrame
  \/ WorkerFail /\ WorkerFrame
  \/ CancelWorkflow /\ WorkerFrame
SpecWorker == InitWorker /\ [][NextWorker]_vars

\* run_workflow is called in sync and async mode, the worker takes the jobs
SubmitFrame == UNCHANGED <<orchVars, stopVars, parseVars, retryVars, storeVars, workerVars,
    delayVars,
    raceVars,
    meterVars,
    listVars>>
InitSubmit ==
  SubmitIdle /\ OrchIdle /\ StopIdle /\ ParseIdle /\ RetryIdle /\ StoreIdle /\ WorkerIdle
    /\ DelayIdle
    /\ RaceIdle
    /\ MeterIdle
    /\ ListingIdle
NextSubmit ==
  \/ LimiterTick /\ SubmitFrame
  \/ \E mode \in {"sync", "async"}, redis \in BOOLEAN :
        RunWorkflow(mode, redis) /\ SubmitFrame
  \/ \E i \in 1..MaxChecks : RemoveDeniedEntry(i) /\ SubmitFrame
  \/ WorkerTakes /\ SubmitFrame
  \/ LoopEndsInWorker /\ SubmitFrame
  \/ LoopEndsInTool /\ SubmitFrame
SpecSubmit == InitSubmit /\ [][NextSubmit]_vars

\* calculateDelay is called with an attempt, options and a random draw
DelayFrame ==
  UNCHANGED <<orchVars, stopVars, parseVars, retryVars, storeVars, workerVars,
              submitVars, raceVars, meterVars, listVars>>
InitDelay ==
  DelayInit /\ OrchIdle /\ StopIdle /\ ParseIdle /\ RetryIdle /\ StoreIdle
    /\ WorkerIdle /\ SubmitIdle
    /\ RaceIdle
    /\ MeterIdle
    /\ ListingIdle
NextDelay == \E random \in RandomDraws : CalculateDelayCall(random) /\ DelayFrame
SpecDelay == InitDelay /\ [][NextDelay]_vars

\* Executions under the default stop conditions whose evaluator passes the
\* candidate, scores it low or returns text that is no feedback
MaxFallbackIter == 6     \* largest maxIterations of these executions
FallbackThresholds == {0, 300, 900, 1000}
FallbackEvalTexts ==
  { RenderPayload("p1", "s900", <<"x">>, FALSE),
    RenderPayload("p0", "s50", <<"x">>, FALSE),
    <<"x", " ", "x">> }
NextFallback ==
  \/ \E m \in 1..MaxFallbackIter, t \in FallbackThresholds : Execute(m, t) /\ OrchFrame
  \/ GeneratorReturns /\ OrchFrame
  \/ \E text \in FallbackEvalTexts : DiscriminatorReturns(text) /\ OrchFrame
SpecFallback == Init /\ [][NextFallback]_vars

\* RalphOrchestrator with built-in conditions removed and a condition of
\* the caller added
NextCustom ==
  \/ \E name \in ConditionNames \cup {"custom"} : AddCondition(name) /\ OrchFrame
  \/ \E name \in ConditionNames : RemoveCondition(name) /\ OrchFrame
  \/ \E m \in 0..MaxIter, t \in ScoreThresholds : Execute(m, t) /\ OrchFrame
  \/ GeneratorReturns /\ OrchFrame
  \/ \E c \in Causes : GeneratorFails(c) /\ OrchFrame
  \/ \E text \in EvalTexts : DiscriminatorReturns(text) /\ OrchFrame
  \/ \E c \in Causes : DiscriminatorFails(c) /\ OrchFrame
SpecCustom == Init /\ [][NextCustom]_vars

\* check and peek are called on the limiter
NextPeek ==
  \/ LimiterTick /\ SubmitFrame
  \/ \E redis \in BOOLEAN : RunWorkflow("async", redis) /\ SubmitFrame
  \/ \E i \in 1..MaxChecks : RemoveDeniedEntry(i) /\ SubmitFrame
  \/ \E redis \in BOOLEAN : Peek(redis) /\ SubmitFrame
SpecPeek == InitSubmit /\ [][NextPeek]_vars

\* retry as the runners call it, around provider.complete
InitRunner == RunnerInit /\ OrchIdle /\ StopIdle /\ ParseIdle /\ StoreIdle /\ WorkerIdle /\ SubmitIdle
    /\ DelayIdle
    /\ RaceIdle
    /\ MeterIdle
    /\ ListingIdle
SpecRunner == InitRunner /\ [][NextRetry]_vars

---------------------------------------------------------------------------
(* Properties                                                              *)

Range(q) == { q[i] : i \in DOMAIN q }
Last(q) == q[Len(q)]
Started == pc \in {"generating", "evaluating", "done", "failed"}
\* a is configured, and evaluated before b if b is configured too
Ahead(a, b) ==
  \E i \in DOMAIN conditions :
     /\ conditions[i] = a
     /\ \A j \in DOMAIN conditions : conditions[j] = b => i < j
\* the decision of the configured conditions at the last recorded iteration
LastDecision ==
  CompositeEvaluate(conditions,
     StopContext(Len(iterations), params, iterations, Last(iterations).feedback),
     DefaultStopConfig)

\* C1: whatever the configured list of stop conditions (any subset of the four
\* built-in ones, in any order, also without max_iterations), an execution
\* never records more than maxIterations iterations and never issues a runner
\* call for an iteration beyond maxIterations; with maxIterations = 3 there is
\* no 4th iteration and no call for iteration 4.
C1_NeverBeyondMaxIterations ==
  Started =>
    /\ Len(iterations) <= params.maxIterations
    /\ \A i \in DOMAIN calls : calls[i].iteration <= params.maxIterations
    /\ params.maxIterations = 3 =>
         /\ Len(iterations) < 4
         /\ \A i \in DOMAIN calls : calls[i].iteration # 4

\* An execution without the max_iterations condition returned after exactly
\* maxIterations = 3 iterations.
C1_Witness ==
  /\ pc = "done" /\ params.maxIterations = 3 /\ Len(iterations) = 3
  /\ "max_iterations" \notin Range(conditions)

\* C2: at every moment the i-th recorded iteration has number i, and the
\* result returned has iterations = N and the same history, N being the
\* number of iterations recorded.
C2_IterationNumbersAreOneToN ==
  /\ \A i \in DOMAIN iterations : iterations[i].number = i
  /\ result.returned =>
       /\ result.iterations = Len(iterations)
       /\ Len(result.iterationHistory) = result.iterations
       /\ \A i \in DOMAIN result.iterationHistory :
            result.iterationHistory[i].number = i

C2_Witness ==
  /\ pc = "done" /\ result.returned /\ result.iterations = 3
  /\ result.iterationHistory[3].number = 3

\* C3: the threshold condition stops iff currentPassed is true and
\* currentScore >= scoreThreshold, and then with reason threshold_reached; an
\* execution never ends with reason threshold_reached at an iteration whose
\* feedback has passed = false or a score below the threshold.
C3_ThresholdNeedsPassedAndScore ==
  /\ spc = "threshold" =>
       /\ decision.shouldStop <=>
            (ctx.currentPassed /\ ctx.currentScore >= ctx.scoreThreshold)
       /\ decision.shouldStop => decision.reason = "threshold_reached"
  /\ (pc = "done" /\ result.reason = "threshold_reached") =>
       /\ iterations # <<>>
       /\ Last(iterations).feedback.passed
       /\ Last(iterations).feedback.score >= params.scoreThreshold

\* Iteration 1 had score 0.9 >= threshold 0.5 with passed = false, the
\* threshold condition is configured, and the loop went on to iteration 2.
C3_Witness ==
  /\ pc = "generating" /\ iteration = 2 /\ params.scoreThreshold = 500
  /\ "threshold" \in Range(conditions)
  /\ iterations[1].feedback.score = 900 /\ ~iterations[1].feedback.passed

\* C4: the stagnation condition with window N and improvement threshold t
\* stops iff at least N+1 iterations are recorded and no score after the
\* oldest of the last N+1 exceeds that oldest score by strictly more than t
\* (scores [0.50, 0.51, 0.505, 0.509], N = 3, t = 0.01: it stops).
C4_StagnationAgainstOldest ==
  spc = "stagnation" =>
    LET n      == stopCfg.maxStagnantIterations
        len    == Len(ctx.iterations)
        oldest == ctx.iterations[len - n].feedback.score
    IN  decision.shouldStop <=>
          /\ len >= n + 1
          /\ \A i \in (len - n + 1)..len :
               ctx.iterations[i].feedback.score - oldest <= stopCfg.improvementThreshold

\* C5: whenever execute returns, success is true iff the stop reason is
\* threshold_reached, the reason is the one the stop conditions gave at the
\* last iteration (max_iterations when none stopped), finalScore is the score
\* of the last recorded iteration (0 when there is none), output is the last
\* candidate generated, and iterationHistory holds every recorded iteration.
C5_ResultOfExecute ==
  pc = "done" =>
    /\ result.returned
    /\ result.success <=> (result.reason = "threshold_reached")
    /\ result.reason = stopReason
    /\ result.iterationHistory = iterations
    /\ IF iterations = <<>>
       THEN /\ result.finalScore = 0 /\ result.output = 0
            /\ result.reason = "max_iterations"
       ELSE /\ result.finalScore = Last(iterations).feedback.score
            /\ result.output = Last(iterations).generatorOutput
            /\ result.output = Last(calls).output
            /\ result.reason = IF LastDecision.shouldStop THEN LastDecision.reason
                               ELSE "max_iterations"

C5_Witness ==
  /\ pc = "done" /\ result.success /\ result.iterations = 2
  /\ result.output = 2 /\ result.finalScore = 900

ValidFeedback(fb) ==
  /\ fb.passed \in BOOLEAN
  /\ fb.score >= 0 /\ fb.score <= 1000
  /\ fb.issues \in Seq({"i"})
  /\ fb.suggestions = <<>> \/ DOMAIN fb.suggestions = 1..Len(fb.suggestions)

NoUnit(t, set) == \A i \in DOMAIN t : t[i] \notin set

RECURSIVE AttemptsOf(_, _)
AttemptsOf(evs, kind) ==
  IF evs = <<>> THEN <<>>
  ELSE (IF Head(evs).kind = kind THEN <<Head(evs).attempt>> ELSE <<>>)
         \o AttemptsOf(Tail(evs), kind)

\* fn fails with retryable errors at its first k invocations and succeeds at
\* invocation k+1
FailsThenSucceeds(k) ==
  /\ k + 1 <= opts.maxAttempts
  /\ \A i \in 1..k : script[i] # "ok" /\ DefaultShouldRetry(ErrorNamed(script[i]))
  /\ script[k + 1] = "ok"

\* C10: if fn fails with retryable errors at its first k attempts
\* (k < maxAttempts) and succeeds at attempt k+1, retry returns that value,
\* calls fn exactly k+1 times and calls onRetry exactly k times, with attempts
\* 1..k in order, each just before the corresponding wait.
C10_RetryUntilSuccess ==
  \A k \in 0..MaxAttempts :
    (rpc \in {"returned", "thrown"} /\ FailsThenSucceeds(k)) =>
      /\ outcome.kind = "returned" /\ outcome.value = k + 1
      /\ AttemptsOf(events, "call") = [i \in 1..(k + 1) |-> i]
      /\ opts.onRetry # "none" =>
           /\ AttemptsOf(events, "onRetry") = [i \in 1..k |-> i]
           /\ \A i \in DOMAIN events :
                events[i].kind = "onRetry" =>
                  /\ i < Len(events)
                  /\ events[i + 1].kind = "sleep"
                  /\ events[i + 1].attempt = events[i].attempt
                  /\ events[i + 1].delayMs = events[i].delayMs

RetryEnded == rpc \in {"returned", "thrown"}
Fatal(name) == name # "ok" /\ ~DefaultShouldRetry(ErrorNamed(name))
Retryable(name) == name # "ok" /\ DefaultShouldRetry(ErrorNamed(name))

\* C11: if fn fails at attempt 1 with an error the eligibility policy
\* classifies as fatal, retry calls fn exactly once, never calls onRetry,
\* never waits, and throws that error.
C11_FatalErrorIsNotRetried ==
  (rpc # "idle" /\ opts.maxAttempts >= 1 /\ Fatal(script[1])) =>
    /\ \A i \in DOMAIN events : events[i] = CallEvent(1) /\ i = 1
    /\ rpc \notin {"sleeping", "returned"}
    /\ RetryEnded =>
         /\ events = <<CallEvent(1)>>
         /\ outcome = [kind |-> "thrown", value |-> 0, error |-> ErrorNamed(script[1])]

\* An authentication error at attempt 1 of 3, with a callback given.
C11_Witness ==
  /\ rpc = "thrown" /\ opts.maxAttempts = 3 /\ opts.onRetry = "returns"
  /\ script[1] = "LLM_AUTHENTICATION_ERROR" /\ script[2] = "ok"
  /\ outcome.error.name = "LLM_AUTHENTICATION_ERROR"

\* C12: if every attempt fails with a retryable error, retry calls fn
\* exactly maxAttempts times, calls onRetry (when given) exactly
\* maxAttempts - 1 times, and then throws the error fn threw at its last
\* attempt, unmodified.
C12_ExhaustionRethrowsOriginal ==
  (/\ RetryEnded /\ opts.maxAttempts >= 1
   /\ \A i \in DOMAIN script : Retryable(script[i])) =>
    /\ AttemptsOf(events, "call") = [i \in 1..opts.maxAttempts |-> i]
    /\ opts.onRetry # "none" =>
         AttemptsOf(events, "onRetry") = [i \in 1..(opts.maxAttempts - 1) |-> i]
    /\ outcome = [kind |-> "thrown", value |-> 0,
                  error |-> ErrorNamed(script[opts.maxAttempts])]

\* what retry does when no callback is given: the number of calls of fn ...
RECURSIVE CallsWithoutCallback(_)
CallsWithoutCallback(att) ==
  IF att > opts.maxAttempts THEN att - 1
  ELSE IF script[att] = "ok" \/ att = opts.maxAttempts \/ Fatal(script[att]) THEN att
  ELSE CallsWithoutCallback(att + 1)
\* ... and what the caller sees
OutcomeWithoutCallback ==
  LET n == CallsWithoutCallback(1)
  IN  IF n = 0 THEN [kind |-> "thrown", value |-> 0, error |-> UndefinedError]
      ELSE IF script[n] = "ok"
      THEN [kind |-> "returned", value |-> n, error |-> NoErrorValue]
      ELSE [kind |-> "thrown", value |-> 0, error |-> ErrorNamed(script[n])]

\* C13: an exception thrown by the onRetry callback does not alter the
\* control flow of retry: fn is called, and the waits happen, as without a
\* callback, and the caller sees the same value or the same error of fn.
C13_FailingCallbackChangesNothing ==
  (RetryEnded /\ opts.onRetry = "throws") =>
    /\ outcome = OutcomeWithoutCallback
    /\ AttemptsOf(events, "call") = [i \in 1..CallsWithoutCallback(1) |-> i]
    /\ AttemptsOf(events, "sleep") = [i \in 1..(CallsWithoutCallback(1) - 1) |-> i]

ClientError(f) == f.isApiError /\ f.status >= 400 /\ f.status < 500
ApiFatal(name) ==
  /\ name # "ok"
  /\ ClientError(ApiFailureNamed(name))
  /\ ApiFailureNamed(name).status \notin {408, 429}
ApiRetryable(name) == name # "ok" /\ ~ApiFatal(name)

\* C14: under the default eligibility policy as the runners use it, a
\* provider request that fails with an authentication error or another client
\* error except rate-limit (such as a 400) is attempted exactly once, and
\* one that fails with a network or timeout error, a rate-limit response or
\* a 5xx error is retried up to maxAttempts.
C14_ClientErrorsAreNotRetried ==
  RetryEnded =>
    /\ \A k \in DOMAIN apiErrors :
         ((\A i \in 1..(k - 1) : ApiRetryable(apiErrors[i])) /\ ApiFatal(apiErrors[k])) =>
           /\ AttemptsOf(events, "call") = [i \in 1..k |-> i]
           /\ outcome.kind = "thrown"
           /\ outcome.error = ErrorNamed(HandleError(ApiFailureNamed(apiErrors[k])))
    /\ (apiErrors # <<>> /\ \A i \in DOMAIN apiErrors : ApiRetryable(apiErrors[i])) =>
         AttemptsOf(events, "call") = [i \in 1..opts.maxAttempts |-> i]

\* C15: save(s) followed at once by get(s.id) returns a snapshot identical
\* to s, from the store whose client is connected to Redis and from the store
\* whose client serves the same save and get from the in-process fallback.
C15_SaveThenGetReturnsSnapshot ==
  (slast.op = "get" /\ slast.saved # NullSnapshot) =>
    /\ slast.out = slast.saved
    /\ slast.twinOut = slast.saved

\* A snapshot with a recorded iteration is saved and read back from both.
C15_Witness ==
  /\ slast.op = "get" /\ slast.saved # NullSnapshot
  /\ slast.saved.iterations # <<>> /\ slast.saved.status = "running"
  /\ slast.by = "redis" /\ slast.out = slast.saved /\ slast.twinOut = slast.saved

\* C16: whatever sequence of save, get, update, addIteration, delete, exists,
\* listIds and list is applied, with the clock advancing before and past the
\* time to live, every operation returns the same from the store on Redis and
\* from the store on the in-process fallback.
C16_BackingsReturnTheSame ==
  slast.op \in {"save", "get", "update", "addIteration", "delete", "exists",
                "listIds", "list"} =>
    slast.out = slast.twinOut

DataOps == {"get", "set", "del", "keys", "exists"}

\* C17: once ResilientRedisClient has switched to the fallback (initial
\* connection failure, or more than 10 reconnect attempts), usesFallback
\* stays true whatever operations and connection events follow (ready, close,
\* reconnecting, further connect calls), and every later get, set, del, keys
\* and exists is served by the in-process map.
C17_FallbackIsPermanent ==
  /\ shist.switched => rclient.usesFallback
  /\ (slast.op \in DataOps /\ slast.switched) => slast.by = "fallback"

\* the entry the client was last asked to write for key is still to be read
Written(key) ==
  key \in DOMAIN shist.written /\ ~Expired(shist.written[key], now)

C19_CancelStopsNextIteration ==
  tool.accepted.done =>
    /\ wpc = "executing" => iteration <= tool.accepted.iteration
    /\ wpc \in {"returned", "rethrown"} =>
         SnapshotStatus(rclient, server) = "cancelled"

\* C20: cancel_workflow on an execution whose snapshot says completed or
\* failed throws and leaves the snapshot and the queue job as they were; on
\* one already cancelled it returns the status cancelled and writes nothing;
\* on a running one it returns the status cancelled and the snapshot says
\* cancelled; on a pending one (the job waits, no snapshot yet) it returns
\* the status cancelled and the job is removed.
C20_CancelFollowsStatus ==
  tool.n > 0 =>
    /\ tool.before.status \in {"completed", "failed"} =>
         /\ tool.out.kind = "threw"
         /\ tool.after.db = tool.before.db /\ tool.after.job = tool.before.job
    /\ tool.before.status = "cancelled" =>
         /\ tool.out.kind = "returned" /\ tool.out.status = "cancelled"
         /\ tool.after.db = tool.before.db /\ tool.after.job = tool.before.job
    /\ tool.before.status \in {"pending", "running"} =>
         /\ tool.out.kind = "returned" /\ tool.out.status = "cancelled"
         /\ tool.after.status = "cancelled"
    /\ (tool.before.status = "null" /\ tool.before.job.state = "waiting") =>
         /\ tool.out.kind = "returned" /\ tool.out.status = "cancelled"
         /\ tool.after.job.state = "removed"

\* The execution is cancelled while it runs, fails all the same, and a second
\* cancel_workflow finds it failed and throws.
C20_Witness ==
  /\ tool.n = 2 /\ tool.accepted.done
  /\ tool.before.status = "failed" /\ tool.out.kind = "threw"
  /\ tool.after.db = tool.before.db /\ tool.after.job = tool.before.job
  /\ tool.before.job.state \in {"delayed", "failed"}

\* the i-th condition of the configured list reports stop on the context
StopsAt(i) == ConditionEvaluate(stopCfg.conditions[i], ctx, stopCfg).shouldStop

\* C28: the composite evaluates its conditions in list order and returns the
\* decision of the first one that reports stop, the name of that condition
\* prefixed to the message; if none stops it returns shouldStop = false; with
\* the default order, an iteration that passes at or above the threshold and
\* is also the last allowed one gives threshold_reached, not max_iterations.
C28_FirstStoppingConditionWins ==
  spc = "composite" =>
    /\ decision.shouldStop <=> \E i \in DOMAIN stopCfg.conditions : StopsAt(i)
    /\ ~decision.shouldStop => decision = NoStop
    /\ \A i \in DOMAIN stopCfg.conditions :
         (StopsAt(i) /\ \A j \in 1..(i - 1) : ~StopsAt(j)) =>
           LET r == ConditionEvaluate(stopCfg.conditions[i], ctx, stopCfg)
           IN  /\ decision.reason = r.reason
               /\ decision.message = <<stopCfg.conditions[i]>> \o r.message
    /\ (/\ stopCfg.conditions = DefaultConditions
        /\ ctx.currentPassed /\ ctx.currentScore >= ctx.scoreThreshold
        /\ ctx.currentIteration >= ctx.maxIterations) =>
         decision.reason = "threshold_reached"

\* Default order, the last allowed iteration passes with 0.9 >= 0.5: the
\* threshold condition and the max_iterations condition both stop, the
\* decision is the threshold condition's.
C28_Witness ==
  /\ spc = "composite" /\ stopCfg.conditions = DefaultConditions
  /\ ctx.currentPassed /\ ctx.currentScore = 900 /\ ctx.scoreThreshold = 500
  /\ ctx.currentIteration = ctx.maxIterations
  /\ StopsAt(1) /\ StopsAt(2)
  /\ decision.reason = "threshold_reached"
  /\ decision.message = <<"threshold", "threshold_reached">>

\* C29: the early-termination condition stops iff currentIteration is at
\* least its minimum (default 2) and currentScore is strictly below its floor
\* (default 0.1); never at iteration 1, and not at a score equal to the floor.
C29_EarlyTerminationBelowFloor ==
  spc = "early_termination" =>
    /\ decision.shouldStop <=>
         (/\ ctx.currentIteration >= stopCfg.minIterations
          /\ ctx.currentScore < stopCfg.scoreThreshold)
    /\ decision.shouldStop => decision.reason = "early_termination"
    /\ ctx.currentIteration = 1 => ~decision.shouldStop
    /\ ctx.currentScore = DefaultEarlyScoreThreshold => ~decision.shouldStop

\* Iteration 3 with a score of exactly 0.1: no stop.
C29_Witness ==
  /\ spc = "early_termination" /\ ctx.currentIteration = 3
  /\ stopCfg.minIterations = DefaultEarlyMinIterations
  /\ ctx.currentScore = DefaultEarlyScoreThreshold /\ ~decision.shouldStop

\* the decision of the configured conditions when iteration k was recorded
DecisionAt(k) ==
  CompositeEvaluate(conditions,
     StopContext(k, params, SubSeq(iterations, 1, k), iterations[k].feedback),
     DefaultStopConfig)

\* C30: the steps of an execution are strictly sequential, with at most one
\* runner call outstanding.  The generation call of iteration k carries the
\* number k and the feedback of iteration k-1 (none for k = 1); the
\* evaluation call follows the generation call of its iteration and carries
\* that iteration's candidate; a call is issued only when every earlier call
\* has ended; iteration k+1 starts only after iteration k was recorded and
\* the stop conditions evaluated on it did not stop.
C30_StepsAreSequential ==
  Started =>
    /\ \A i \in DOMAIN calls :
         /\ calls[i].stage = "generate" =>
              LET k == calls[i].iteration
              IN  /\ k = (i + 1) \div 2 /\ i % 2 = 1
                  /\ k = 1 => calls[i].previousFeedback = NullFeedback
                  /\ k > 1 =>
                       /\ Len(iterations) >= k - 1
                       /\ calls[i].previousFeedback = iterations[k - 1].feedback
                       /\ calls[i - 1].stage = "evaluate"
                       /\ calls[i - 1].iteration = k - 1
                       /\ ~DecisionAt(k - 1).shouldStop
         /\ calls[i].stage = "evaluate" =>
              /\ i % 2 = 0
              /\ calls[i - 1].stage = "generate"
              /\ calls[i - 1].iteration = calls[i].iteration
              /\ calls[i].output = calls[i].iteration
              /\ Len(iterations) >= calls[i].iteration =>
                   iterations[calls[i].iteration].generatorOutput = calls[i].output
         /\ i < Len(calls) => calls[i].rejected = "no"
    /\ pc \in {"generating", "evaluating"} =>
         /\ calls # <<>>
         /\ Last(calls).stage = (IF pc = "generating" THEN "generate" ELSE "evaluate")
         /\ Last(calls).iteration = Len(iterations) + 1
    /\ pc = "done" => Len(calls) = 2 * Len(iterations)

\* The generation call of iteration 3 is outstanding; it carries the
\* feedback of iteration 2.
C30_Witness ==
  /\ pc = "generating" /\ Len(calls) = 5 /\ Len(iterations) = 2
  /\ calls[5].iteration = 3 /\ calls[5].previousFeedback = iterations[2].feedback
  /\ iterations[2].feedback # iterations[1].feedback

Terminal == {"completed", "failed", "cancelled"}

\* C24: addIteration on an execution whose status in the store is terminal
\* leaves its iterations and its currentIteration as they were.
C24_NoIterationAfterTerminal ==
  (slast.op = "addIteration" /\ slast.saved.status \in Terminal) =>
    /\ slast.out.iterations = slast.saved.iterations
    /\ slast.out.currentIteration = slast.saved.currentIteration

\* C25: an execution that ends with an execution-level error is a terminal
\* failure and is not executed again: once processWorkflowJob has thrown the
\* error again the job does not wait for another run, and for the workflow
\* id the generate-evaluate loop is entered at most once (the generation
\* call of iteration 1 is issued once).
C25_FailedExecutionNotRunAgain ==
  /\ wpc = "rethrown" => job.state \notin {"waiting", "delayed"}
  /\ job.attemptsMade <= 1

\* C26: while the worker runs the execution the snapshot follows it: with k
\* iterations recorded the snapshot has currentIteration = k and k history
\* records, and when the worker has completed the job after N iterations the
\* snapshot read by the status query has currentIteration = N and N
\* iteration entries.
C26_SnapshotFollowsProgress ==
  LET snapshot == StoreGet(rclient, server, WorkflowId, now).out
  IN  (tool.n = 0 /\ wpc \in {"executing", "returned"}) =>
        /\ snapshot.currentIteration = Len(iterations)
        /\ Len(snapshot.iterations) = Len(iterations)

\* C22: a failing durable write (workflow row, iteration row or audit log)
\* or an unavailable durable store does not change what the caller sees of
\* an execution that returned: however persistToPostgres ended, the worker
\* returns the job result of the execution, the job is completed and no error
\* is thrown, and the snapshot is the completed one with the stop reason.
C22_DurableFailureInvisible ==
  LET snapshot == StoreGet(rclient, server, WorkflowId, now).out
  IN  (pc = "done" /\ wpc \in {"returned", "rethrown"}) =>
        /\ wpc = "returned" /\ job.state = "completed"
        /\ job.returnvalue = WorkflowJobResultOf(result)
        /\ snapshot.status = "completed"
        /\ snapshot.stopReason = result.reason
        /\ snapshot.completedAt = now

\* A successful execution of two iterations whose second iteration row fails
\* to be written: the workflow row and the first iteration row are there,
\* the job is completed with success.
C22_Witness ==
  /\ wpc = "returned" /\ pg.persist = "failed" /\ Len(pg.rows) = 2
  /\ result.success /\ result.iterations = 2
  /\ job.state = "completed" /\ job.returnvalue.success

\* the rows of a table written for the workflow
RowsOf(table) ==
  { i \in DOMAIN pg.rows : pg.rows[i].table = table
                           /\ pg.rows[i].workflowId = WorkflowId }

\* C21: every execution whose loop has ended, with success, with a
\* non-success stop or with an execution-level failure, has exactly one
\* workflow row in the durable store with one iteration row per recorded
\* iteration (the store being available and no write failing), and nothing
\* is written while the loop runs.
C21_OneDurableWritePerExecution ==
  /\ (wpc = "executing" /\ job.attemptsMade = 1) => pg.rows = <<>>
  /\ (wpc \in {"returned", "rethrown"} /\ pg.persist \notin {"skipped", "failed"}) =>
       /\ Cardinality(RowsOf("workflows")) = 1
       /\ Cardinality(RowsOf("iterations")) = Len(iterations)

\* the admissions of the window that ends now
AdmittedInWindow ==
  SelectSeq(rl.admitted, LAMBDA t : t > rl.now - WorkflowRateLimit.windowMs)

\* C23: in every window of the limiter's length at most maxRequests checks of
\* the client return allowed = true, on Redis, on the fallback store and with
\* checks in flight at the same time.
C23_AtMostMaxRequestsPerWindow ==
  Len(AdmittedInWindow) <= WorkflowRateLimit.maxRequests

\* C27: the executions whose loop is in progress, in a worker or in the
\* tool, are never more than the worker's concurrency.
C27_LoopsWithinPoolSize ==
  execs.inWorker + execs.inTool <= WorkerConcurrency

\* the capped delay c of the call, times DelayScale, and twice of it
CappedOfCall == CappedDelay(dly.attempt, dly.options)
ScaleOfCall == DelayScale(dly.attempt, dly.options)

\* Without jitter the delay is floor(min(initialDelay * multiplier ^
\* (attempt - 1), maxDelay)), it never exceeds maxDelay and the delay of the
\* next attempt is not smaller; with jitter it is floor(c + c * r).
DelayAsComputed ==
  LET o == dly.options
      unjittered == [o EXCEPT !.jitter = FALSE]
  IN  /\ ~o.jitter =>
           /\ dly.out = CappedOfCall \div ScaleOfCall
           /\ dly.out <= o.maxDelayMs
      /\ CalculateDelay(dly.attempt, unjittered, 0)
           <= CalculateDelay(dly.attempt + 1, unjittered, 0)
      /\ o.jitter =>
           dly.out = (CappedOfCall * 1000 + CappedOfCall * dly.random)
                       \div (1000 * ScaleOfCall)

AllFallback == \A i \in DOMAIN iterations : iterations[i].feedback = FallbackFeedback
FewerOf(a, b) == IF a < b THEN a ELSE b

\* C37: under the default stop conditions an execution does not end with
\* threshold_reached or early_termination at an iteration that has the
\* fallback feedback, whatever the score threshold; an execution all of whose
\* evaluations fall back ends without success, with stagnation or
\* max_iterations, after min(maxIterations, 4) iterations.
C37_FallbackNeitherPassesNorEndsEarly ==
  (pc = "done" /\ iterations # <<>>) =>
    /\ Last(iterations).feedback = FallbackFeedback =>
         result.reason \notin {"threshold_reached", "early_termination"}
    /\ AllFallback =>
         /\ ~result.success
         /\ result.reason \in {"stagnation", "max_iterations"}
         /\ Len(iterations) = FewerOf(params.maxIterations, 4)

\* Six iterations allowed, every evaluation falls back: the execution ends
\* with stagnation after the fourth.
C37_Witness ==
  /\ pc = "done" /\ AllFallback /\ params.maxIterations = 6
  /\ Len(iterations) = 4 /\ result.reason = "stagnation" /\ ~result.success
  /\ params.scoreThreshold = 300

\* C40: execute returns success = true only if the feedback of the last
\* recorded iteration has passed = true and a score at or above the
\* threshold, for every subset of the built-in conditions and with a
\* condition of the caller that never gives the reason threshold_reached.
C40_SuccessNeedsPassingLastFeedback ==
  (pc = "done" /\ result.success) =>
    /\ iterations # <<>>
    /\ Last(iterations).feedback.passed
    /\ Last(iterations).feedback.score >= params.scoreThreshold

\* C36: for an execution the worker has persisted, the status of the
\* workflow row in the durable store is the terminal status of the snapshot
\* of the same id, whatever the stop reason.
C36_DurableStatusIsSnapshotStatus ==
  (wpc = "returned" /\ pg.persist = "written") =>
    \A i \in RowsOf("workflows") :
       pg.rows[i].status = StoreGet(rclient, server, WorkflowId, now).out.status

\* C35: a terminal status of the snapshot is absorbing: once it is completed,
\* failed or cancelled, no step of the worker, no further run of the job and
\* no cancel_workflow call changes it to another status.
C35_TerminalStatusStays ==
  [][SnapshotStatus(rclient, server) \in Terminal =>
       SnapshotStatus(rclient', server') = SnapshotStatus(rclient, server)]_vars

\* C39: read-your-writes across failures of the Redis server: a get returns
\* the value of the last completed set of the key while it has not expired,
\* and null after a completed del of the key (or when it was never set),
\* whenever the server stopped answering or answered again in between.
C39_ReadYourWrites ==
  slast.op = "get" =>
    /\ Written(GetKey(slast.id)) =>
         slast.out = shist.written[GetKey(slast.id)].value
    /\ GetKey(slast.id) \notin DOMAIN shist.written => slast.out = NullData

\* what the next check would return on the sorted set and the fallback entry
NextCheck(zset, entry, redis) ==
  LET out == IF redis THEN RedisMulti(zset, rl.now, WorkflowRateLimit).out
             ELSE InMemoryCheck(entry, rl.now, WorkflowRateLimit).out
  IN  <<out.allowed, out.current, out.remaining>>

\* C34: peek consumes nothing and leaves the limiter as it was: after a peek
\* the next check returns what it would have returned without the peek, on
\* Redis and on the fallback store.
C34_PeekChangesNothing ==
  rl.op = "peek" =>
    \A redis \in BOOLEAN :
       NextCheck(rl.zset, rl.entry, redis)
         = NextCheck(rl.before.zset, rl.before.entry, redis)

\* ---------------------------------------------------------------------
\* Concurrent writers of one snapshot.  update and addIteration are
\*   const current = await this.get(id); ...; await this.save(updated)
\* so another caller's get or save can run between the two awaits.
\* ---------------------------------------------------------------------
WriterKinds == {"addIteration", "update", "cancel", "complete", "fail"}
\* the object spread each writer saves, from the snapshot it read
WriterUpdates(w) ==
  CASE w.kind = "addIteration" ->
         [currentIteration |-> w.n, iterations |-> Append(w.current.iterations, w.n)]
    [] w.kind = "update"   -> [status |-> "running"]
    [] w.kind = "cancel"   -> [status |-> "cancelled", stopReason |-> "cancelled by user",
                               completedAt |-> now]
    [] w.kind = "complete" -> [status |-> "completed", stopReason |-> "threshold_reached",
                               completedAt |-> now]
    [] OTHER               -> [status |-> "failed", completedAt |-> now]
\* the snapshot the writers work on is saved first
RaceSave(state) ==
  /\ ~race.saved
  /\ LET w == StoreSave(rclient, server, state, now)
     IN  rclient' = w.client /\ server' = w.server
  /\ race' = [race EXCEPT !.saved = TRUE]
  /\ UNCHANGED <<now, twin, slast, shist>>
\* first half of update/addIteration: await this.get(workflowId)
WriterReads(i, kind) ==
  /\ race.saved /\ race.w[i].at = "idle"
  /\ LET g == StoreGet(rclient, server, WorkflowId, now)
     IN  /\ rclient' = g.client /\ server' = g.server
         /\ race' = [race EXCEPT
                       !.w[i] = [kind |-> kind, n |-> MaxStoreIterations + i,
                                 at |-> IF g.out = NullSnapshot THEN "done" ELSE "read",
                                 current |-> g.out],
                       !.overlapped = @ \/ \E j \in Writers : race.w[j].at = "read"]
  /\ UNCHANGED <<now, twin, slast, shist>>
\* second half: await this.save(updated); return updated
WriterWrites(i) ==
  /\ race.w[i].at = "read"
  /\ LET updated == Merged(race.w[i].current, WriterUpdates(race.w[i]), now)
         w == StoreSave(rclient, server, updated, now)
     IN  rclient' = w.client /\ server' = w.server
  /\ race' = [race EXCEPT !.w[i].at = "done"]
  /\ UNCHANGED <<now, twin, slast, shist>>
RaceFrame == UNCHANGED <<orchVars, stopVars, parseVars, retryVars, workerVars, submitVars,
    delayVars,
    meterVars,
    listVars>>
InitRace == ConnectedInit /\ OrchIdle /\ StopIdle /\ ParseIdle /\ RetryIdle /\ WorkerIdle
    /\ SubmitIdle /\ DelayIdle /\ RaceIdle
    /\ MeterIdle
    /\ ListingIdle
NextRace ==
  \/ Tick /\ UNCHANGED race /\ RaceFrame
  \/ \E state \in SaveInputs(WorkflowId, now) : RaceSave(state) /\ RaceFrame
  \/ WriterReads(1, "addIteration") /\ RaceFrame
  \/ \E kind \in WriterKinds : WriterReads(2, kind) /\ RaceFrame
  \/ \E i \in Writers : WriterWrites(i) /\ RaceFrame
SpecRace == InitRace /\ [][NextRace]_vars

\* what a returned writer is expected to have left in the snapshot
EffectIn(w, s) ==
  CASE w.kind = "addIteration" -> w.n \in Range(s.iterations)
    [] w.kind = "update"       -> TRUE
    [] w.kind = "cancel"       -> s.status = "cancelled"
    [] w.kind = "complete"     -> s.status = "completed"
    [] OTHER                   -> s.status = "failed"
\* both writers found the snapshot, saved and returned, and it has not expired
BothReturned ==
  /\ \A i \in Writers : race.w[i].at = "done" /\ race.w[i].current # NullSnapshot
  /\ StoreGet(rclient, server, WorkflowId, now).out # NullSnapshot
\* C32: once addIteration and another write on the same id have both
\* returned, the snapshot holds the effect of both; no write is lost.
C32_NoWriteLost ==
  BothReturned =>
    \A i \in Writers :
       EffectIn(race.w[i], StoreGet(rclient, server, WorkflowId, now).out)

\* the same with the two writers one after the other
C32_SequentialWritesKept ==
  (BothReturned /\ ~race.overlapped) =>
    \A i \in Writers :
       EffectIn(race.w[i], StoreGet(rclient, server, WorkflowId, now).out)

\* ---------------------------------------------------------------------
\* execute with generator.run and discriminator.run as they are: each one
\* executeCompletion, that is one retry(() => provider.complete(...)).
\* ---------------------------------------------------------------------
\* what the requests of one runner call do, in order
\* (a request after the one that ends the call is never sent: "ok" stands for it)
CompletionScripts(n) ==
  { s \in [1..n -> {"ok", "LLM_RATE_LIMIT", "LLM_AUTHENTICATION_ERROR"}] :
      \A i \in 1..n : s[i] # "LLM_RATE_LIMIT" => \A j \in (i + 1)..n : s[j] = "ok" }
BoundedEvalTexts ==
  { RenderPayload("p1", "s900", <<"x">>, FALSE),
    RenderPayload("p0", "s500", <<"x">>, FALSE) }
\* what parseResponse makes of them
BoundedParsed == { ParseResponse(text) : text \in BoundedEvalTexts }
\* discriminator.run resolves with a response parsed as parsed
DiscriminatorParsed(parsed) ==
  /\ pc = "evaluating"
  /\ IF parsed.status = "throw"
     THEN Abort("PARSE_ERROR")
     ELSE RecordIteration(parsed.fb)
\* new RalphOrchestrator(config) with runners of retryOptions.maxAttempts n
BoundedInit ==
  /\ OrchInit
  /\ rpc = "idle" /\ attempt = 0 /\ events = <<>> /\ outcome = NoOutcome
  /\ script = <<>> /\ apiErrors = <<>>
  /\ \E n \in 1..MaxAttempts :
        opts = [maxAttempts |-> n, initialDelayMs |-> DefaultInitialDelayMs,
                maxDelayMs |-> RunnerMaxDelayMs,
                backoffMultiplier |-> DefaultMultiplier, jitter |-> TRUE,
                onRetry |-> "returns"]
  /\ meter = NoMeter
\* executeCompletion: retry(...) up to the first request
CompletionStarts(s) ==
  /\ pc \in {"generating", "evaluating"} /\ rpc = "idle"
  /\ script' = s
  /\ RetryLoop(1, <<>>, UndefinedError)
  /\ meter' = [remote |-> meter.remote + 1, runs |-> meter.runs + 1, waits |-> 0]
  /\ UNCHANGED <<opts, apiErrors, orchVars>>
\* provider.complete resolves
CompletionResolves == FnResolves /\ UNCHANGED <<meter, orchVars>>
\* provider.complete rejects: retry throws, or waits
CompletionRejects(random) ==
  /\ FnRejects(random)
  /\ meter' = IF rpc' = "sleeping" THEN [meter EXCEPT !.waits = @ + 1] ELSE meter
  /\ UNCHANGED orchVars
\* the wait is over: the next request, or the loop of retry is over
CompletionRetries ==
  /\ SleepDone
  /\ meter' = IF rpc' = "calling" THEN [meter EXCEPT !.remote = @ + 1] ELSE meter
  /\ UNCHANGED orchVars
RetryReturnsToCaller ==
  /\ rpc' = "idle" /\ attempt' = 0 /\ events' = <<>> /\ outcome' = NoOutcome
  /\ script' = <<>>
  /\ UNCHANGED <<opts, apiErrors, meter>>
\* the awaited runner call resolves in execute
RunnerResolves(parsed) ==
  /\ rpc = "returned"
  /\ IF pc = "generating" THEN GeneratorReturns ELSE DiscriminatorParsed(parsed)
  /\ RetryReturnsToCaller
\* the awaited runner call rejects in execute
RunnerRejects ==
  /\ rpc = "thrown"
  /\ IF pc = "generating" THEN GeneratorFails(outcome.error.name)
     ELSE DiscriminatorFails(outcome.error.name)
  /\ RetryReturnsToCaller
BoundedFrame == UNCHANGED <<stopVars, parseVars, storeVars, workerVars, submitVars,
    delayVars, raceVars,
    listVars>>
InitBounded == BoundedInit /\ StopIdle /\ ParseIdle /\ StoreIdle /\ WorkerIdle
    /\ SubmitIdle /\ DelayIdle /\ RaceIdle
    /\ ListingIdle
NextBounded ==
  \/ \E name \in {"max_iterations"} :
        RemoveCondition(name) /\ UNCHANGED <<retryVars, meter>> /\ BoundedFrame
  \/ \E m \in 0..MaxIter, t \in {900} :
        Execute(m, t) /\ UNCHANGED <<retryVars, meter>> /\ BoundedFrame
  \/ \E s \in CompletionScripts(opts.maxAttempts) : CompletionStarts(s) /\ BoundedFrame
  \/ CompletionResolves /\ BoundedFrame
  \/ \E random \in {500} : CompletionRejects(random) /\ BoundedFrame
  \/ CompletionRetries /\ BoundedFrame
  \/ \E parsed \in BoundedParsed : RunnerResolves(parsed) /\ BoundedFrame
  \/ RunnerRejects /\ BoundedFrame
\* every request is answered, every wait ends, and execute runs on
SpecBounded == InitBounded /\ [][NextBounded]_vars /\ WF_vars(NextBounded)

Running == pc \in {"generating", "evaluating"}
Ended == pc \in {"done", "failed"}
WithinBounds ==
  /\ Len(iterations) <= params.maxIterations
  /\ meter.runs <= 2 * params.maxIterations
  /\ meter.remote <= 2 * opts.maxAttempts * params.maxIterations
  /\ meter.waits <= opts.maxAttempts - 1
\* C38: with every remote call answered, execute ends (a result, or the
\* execution-level failure) after at most maxIterations iterations and at
\* most 2 * maxAttempts * maxIterations remote calls, each runner call
\* waiting at most maxAttempts - 1 times.
C38_TerminatesWithinBounds == [](WithinBounds) /\ (Running ~> Ended)
\* both bounds met: every request but the last of every runner call fails
C38_Witness ==
  /\ pc = "done" /\ result.returned
  /\ params.maxIterations >= 2 /\ opts.maxAttempts >= 2
  /\ Len(iterations) = params.maxIterations
  /\ meter.remote = 2 * opts.maxAttempts * params.maxIterations

\* ---------------------------------------------------------------------
\* list_workflows: one page from the repository (PostgreSQL available) or
\* from the state store, sorted by the tool; the caller asks page after
\* page.
\* ---------------------------------------------------------------------
MaxListed == 3           \* executions stored when the listing is asked
SortFields == {"createdAt", "updatedAt", "score"}
SortOrders == {"asc", "desc"}
Orderings(n) == { f \in [1..n -> 1..n] : \A i, j \in 1..n : f[i] = f[j] => i = j }
\* The executions stored, in the order KEYS returns them; the dates and the
\* scores are pairwise different
ListingTables ==
  { [i \in 1..MaxListed |->
       [id |-> i, status |-> IF i <= k THEN "running" ELSE "completed",
        createdAt |-> c[i], updatedAt |-> u[i],
        score |-> 100 * s[i]]] :
      k \in {1, MaxListed}, c \in Orderings(MaxListed),
      u \in Orderings(MaxListed), s \in Orderings(MaxListed) }
\* the comparator of sortWorkflows and of workflows.sort in the tool
Comparison(a, b, sortBy, sortOrder) ==
  LET comparison == a[sortBy] - b[sortBy]
  IN  IF sortOrder = "desc" THEN 0 - comparison ELSE comparison
\* Array.prototype.sort with that comparator (stable)
RECURSIVE SortWorkflows(_, _, _)
SortWorkflows(ws, sortBy, sortOrder) ==
  IF ws = <<>> THEN <<>>
  ELSE LET rest   == SortWorkflows(Tail(ws), sortBy, sortOrder)
           ahead  == SelectSeq(rest, LAMBDA w : Comparison(w, Head(ws), sortBy, sortOrder) < 0)
           behind == SelectSeq(rest, LAMBDA w : Comparison(w, Head(ws), sortBy, sortOrder) >= 0)
       IN  ahead \o <<Head(ws)>> \o behind
Matching(table, status) ==
  SelectSeq(table, LAMBDA w : status = "all" \/ w.status = status)
\* WorkflowRepository.list: count(*), then
\* select ... where ... order by created_at desc limit ... offset ...
RepositoryList(table, status, limit, offset) ==
  LET rows == Matching(table, status)
      data == Slice(SortWorkflows(rows, "createdAt", "desc"), offset, limit)
  IN  [data |-> data, total |-> Len(rows), limit |-> limit, offset |-> offset,
       hasMore |-> offset + Len(data) < Len(rows)]
\* WorkflowStateStore.list over the snapshots stored: the ids of listIds are
\* sliced, the page is fetched and sorted by updatedAt
StateStoreList(table, status, limit, offset) ==
  LET ids == Matching(table, status)
  IN  [workflows |-> SortByUpdatedAt(Slice(ids, offset, limit)), total |-> Len(ids)]
\* listWorkflowsTool.execute
ListWorkflowsExecute(table, req, offset) ==
  IF req.available
  THEN LET listed == RepositoryList(table, req.status, req.limit, offset)
       IN  [workflows |-> IF req.sortBy # "createdAt" \/ req.sortOrder # "desc"
                          THEN SortWorkflows(listed.data, req.sortBy, req.sortOrder)
                          ELSE listed.data,
            total |-> listed.total, limit |-> listed.limit, offset |-> listed.offset,
            hasMore |-> listed.hasMore, source |-> "postgres"]
  ELSE LET listed == StateStoreList(table, req.status, req.limit, offset)
       IN  [workflows |-> SortWorkflows(listed.workflows, req.sortBy, req.sortOrder),
            total |-> listed.total, limit |-> req.limit, offset |-> offset,
            hasMore |-> offset + req.limit < listed.total, source |-> "redis"]
ListingInit ==
  \E table \in ListingTables, status \in {"all", "running"}, limit \in 1..2,
     sortBy \in SortFields, sortOrder \in SortOrders, available \in BOOLEAN :
     lst = [pc |-> "paging", table |-> table, pages |-> <<>>,
            req |-> [status |-> status, limit |-> limit, sortBy |-> sortBy,
                     sortOrder |-> sortOrder, available |-> available]]
\* the caller asks for the page after the ones it has
ListNextPage ==
  /\ lst.pc = "paging" /\ Len(lst.pages) <= MaxListed
  /\ LET page == ListWorkflowsExecute(lst.table, lst.req, Len(lst.pages) * lst.req.limit)
     IN  lst' = [lst EXCEPT !.pages = Append(@, page),
                            !.pc = IF page.hasMore THEN "paging" ELSE "listed"]
ListingFrame == UNCHANGED <<orchVars, stopVars, parseVars, retryVars, storeVars, workerVars,
    submitVars, delayVars, raceVars, meterVars>>
InitListing == ListingInit /\ OrchIdle /\ StopIdle /\ ParseIdle /\ RetryIdle /\ StoreIdle
    /\ WorkerIdle /\ SubmitIdle /\ DelayIdle /\ RaceIdle /\ MeterIdle
NextListing == ListNextPage /\ ListingFrame
SpecListing == InitListing /\ [][NextListing]_vars

RECURSIVE Concatenated(_)
Concatenated(pages) ==
  IF pages = <<>> THEN <<>> ELSE Head(pages).workflows \o Concatenated(Tail(pages))
ListedMatching == Matching(lst.table, lst.req.status)
\* every matching execution is on exactly one page
EveryMatchingOnce ==
  LET all == Concatenated(lst.pages)
  IN  /\ Len(all) = Len(ListedMatching)
      /\ \A i \in DOMAIN ListedMatching : \E j \in DOMAIN all : all[j] = ListedMatching[i]
\* total and hasMore of every page
TotalsRight ==
  \A p \in DOMAIN lst.pages :
     /\ lst.pages[p].total = Len(ListedMatching)
     /\ lst.pages[p].hasMore <=> (p * lst.req.limit < Len(ListedMatching))
InGlobalOrder ==
  Concatenated(lst.pages) = SortWorkflows(ListedMatching, lst.req.sortBy, lst.req.sortOrder)
\* C31: the pages at offsets 0, limit, 2 * limit, ... put together hold every
\* matching execution once, in the order asked for; total counts the matching
\* executions and hasMore says whether more remain, on both paths.
C31_PagesAreTheSortedListing ==
  lst.pc = "listed" => (EveryMatchingOnce /\ TotalsRight /\ InGlobalOrder)
\* what holds of the pages on both paths
C31_PagesCoverTheListing ==
  lst.pc = "listed" => (EveryMatchingOnce /\ TotalsRight)
\* the order holds where the tool does not sort: the durable tier's own order
C31_DurableDefaultOrder ==
  (lst.pc = "listed" /\ lst.req.available /\ lst.req.sortBy = "createdAt"
     /\ lst.req.sortOrder = "desc") => InGlobalOrder

===========================================================================
